---- MODULE Spec2Model ----
(***************************************************************************)
(* A model of the optimization engine of cbamf/opt/optimize.py:            *)
(* the Levenberg-Marquardt drivers do_levmarq and do_levmarq_particles,    *)
(* the pixel budget get_num_px_jtj and the spatial partitioner             *)
(* separate_particles_into_groups.                                         *)
(*                                                                         *)
(* The State object s (cbamf.states) is not part of the sources; it is     *)
(* modelled by its contract: a flat parameter vector, a residual image     *)
(* that is a deterministic function of the parameters, particle positions  *)
(* and radii.  The linear solve of find_LM_updates (numpy lstsq) is        *)
(* modelled by its result: a step vector drawn from a bounded set.         *)
(***************************************************************************)
EXTENDS Integers, Sequences, FiniteSets, TLC

VARIABLES
    fn,         \* the function that is running
    pc,         \* position of the call: "call", "loop", "run", "done", or the exception raised
    kw,         \* the options of the call (keyword arguments)
    param_ok,   \* set(s.param_order) equals the names update_state_global supports
    state,      \* s.state, the flat vector of the global (non-particle) parameters
    pos,        \* s.obj.pos, particle -> position (in units of 1e-6; in half
                \* pixels for separate_particles_into_groups)
    rad,        \* s.obj.rad, particle -> radius   (in units of 1e-6)
    block,      \* do_levmarq: the parameters optimized over (the True entries of the mask)
    particles,  \* do_levmarq_particles: the sequence of particle indices
    damp,       \* the damping
    ddamp,      \* the multiplier of the damping
    counter,    \* the budget counter of the outer loop, a binary64
    recalc_J,   \* J is recomputed at the start of the next outer iteration
    num_px,     \* the pixel budget computed at the call
    p0,         \* snapshot of the free parameters taken by the outer iteration
    err_start,  \* get_err(s) at the start of the outer iteration
    d0,         \* trial step solved at damping damp
    d1,         \* trial step solved at damping damp*ddamp
    err0,       \* get_err(s) after the first trial step
    err1,       \* get_err(s) after the second trial step
    rn,         \* number of inner run steps that stayed applied
    run_p0,     \* snapshot taken by the last inner run step
    hist,       \* observations of the call: what it did so far
    dif_tile,   \* get_tile_from_multiple_particle_change: the tile it returns
    region_size,  \* do_levmarq_all_particle_groups: the box size it partitions with
    evals,      \* do_conj_grad_jtj: the eigenvalues np.linalg.eigh returned
    dir_a,      \* do_conj_grad_jtj: the index a of the eigen-direction to visit
    px_inds,    \* get_rand_Japprox: inds, the pixels J is evaluated on
    delta0,     \* find_LM_updates: the step np.linalg.lstsq returned
    rank,       \* find_LM_updates: the rank np.linalg.lstsq returned
    line,       \* do_line_min: brk_vals, cnt_val, start, old, new, run, bracket, res
    particle_groups  \* separate_particles_into_groups: the list it returns

vars == <<fn, pc, kw, param_ok, state, pos, rad, block, particles, damp, ddamp,
          counter, recalc_J, num_px, p0, err_start, d0, d1, err0, err1, rn,
          run_p0, hist, dif_tile, region_size, evals, dir_a, px_inds,
          delta0, rank, line, particle_groups>>

------------------------------------------------------------------------------
(* Bounds of the model *)

\* largest value of a global parameter (values are 0..MaxVal)
MaxVal == 3
\* largest run_length a call is given
MaxRunLength == 2

------------------------------------------------------------------------------
(* binary64 arithmetic of the loop counter.                                *)
(* A binary64 x with 0 <= x < 8 that is a multiple of 2^-56 is the pair    *)
(* <<hi, lo>> with x * 2^56 = hi * 2^28 + lo and 0 <= lo < 2^28.           *)

Two28 == 2^28

\* the binary64 nearest to 0.1 is 7205759403792794 * 2^-56
F64Tenth == <<26843545, 161061274>>

F64FromInt(n) == <<n * Two28, 0>>

\* the spacing of the binary64 numbers around hi * 2^-28, in units of 2^-56
F64Ulp(hi) ==
    IF hi < 2^25 THEN 1
    ELSE IF hi < 2^26 THEN 2
    ELSE IF hi < 2^27 THEN 4
    ELSE IF hi < 2^28 THEN 8
    ELSE IF hi < 2^29 THEN 16
    ELSE IF hi < 2^30 THEN 32
    ELSE 64

\* round to nearest, ties to even
F64Round(hi, lo) ==
    LET u == F64Ulp(hi)
        q == lo \div u
        r == lo % u
        up == (2 * r > u) \/ (2 * r = u /\ q % 2 = 1)
        l2 == (IF up THEN q + 1 ELSE q) * u
    IN  IF l2 = Two28 THEN <<hi + 1, 0>> ELSE <<hi, l2>>

F64Add(a, b) ==
    LET lo == a[2] + b[2]
    IN  F64Round(a[1] + b[1] + (lo \div Two28), lo % Two28)

F64Less(a, b) == a[1] < b[1] \/ (a[1] = b[1] /\ a[2] < b[2])

------------------------------------------------------------------------------
(* The damping values damp and ddamp: binary64 numbers, multiplied         *)
(* (damp *= ddamp) and inverted (1.0/ddamp), each result rounded to        *)
(* nearest, ties to even.  A positive normal binary64 is <<hi, lo, e>>: its *)
(* value is (hi * 2^28 + lo) * 2^e with 2^24 <= hi < 2^25, 0 <= lo < 2^28. *)
(* Where only the sequence of the multiplications and inversions matters,  *)
(* a damping value is the pair <<a, b>> of the exponents of 2^a * 5^b, the *)
(* product and the reciprocal taken without rounding.                      *)




\* 0.1 and 0.2 as 2^a * 5^b
DTenth == <<-1, -1>>
DFifth == <<0, -1>>

\* 0.1 = 0x1999999999999A * 2^-56
D64Tenth == <<26843545, 161061274, -56>>
\* 0.2 = 0x1999999999999A * 2^-55
D64Fifth == <<26843545, 161061274, -55>>
\* 0.9 = 0x1CCCCCCCCCCCCD * 2^-53
D64NineTenths == <<30198988, 214748365, -53>>

\* a result below the normal range (a subnormal number or 0), and one above it
DUnderflow == <<0, 0, 0>>
DOverflow == <<0, 1, 0>>

\* x > 0, for a result of the arithmetic: x is a normal number or inf
DPositive(x) == x # DUnderflow

\* the 53-bit significand as four limbs of 14 bits, lowest first
DLimbs(x) == <<x[2] % 2^14, x[2] \div 2^14, x[1] % 2^14, x[1] \div 2^14>>

\* the limbs of the sums c of partial products, carries propagated from limb k on
RECURSIVE DCarry(_, _, _)
DCarry(c, k, carry) ==
    IF k > Len(c) THEN <<carry>>
    ELSE <<(c[k] + carry) % 2^14>> \o DCarry(c, k + 1, (c[k] + carry) \div 2^14)

\* the 106-bit product of two significands, as eight limbs
DProduct(a, b) ==
    LET c == [k \in 1 .. 7 |->
                 LET Term(i) == IF k + 1 - i >= 1 /\ k + 1 - i <= 4
                                THEN a[i] * b[k + 1 - i] ELSE 0
                 IN  Term(1) + Term(2) + Term(3) + Term(4)]
    IN  DCarry(c, 1, 0)

\* the significand hi * 2^28 + lo (hi may have reached 2^25) at exponent e
DNormal(hi, lo, e) ==
    LET h2 == IF lo = Two28 THEN hi + 1 ELSE hi
        l2 == IF lo = Two28 THEN 0 ELSE lo
        r == IF h2 = 2 * 2^24 THEN <<2^24, 0, e + 1>> ELSE <<h2, l2, e>>
    IN  IF r[3] < -1074 THEN DUnderflow
        ELSE IF r[3] > 971 THEN DOverflow
        ELSE r

\* x * y in binary64
DMul64(x, y) ==
    IF x = DUnderflow \/ y = DUnderflow THEN DUnderflow
    ELSE IF x = DOverflow \/ y = DOverflow THEN DOverflow
    ELSE
    LET P == DProduct(DLimbs(x), DLimbs(y))
        t == IF P[8] >= 2^7 THEN 11 ELSE 10
        q == [i \in 1 .. 4 |-> (P[i + 3] \div 2^t) + (P[i + 4] % 2^t) * 2^(14 - t)]
        guard == (P[4] \div 2^(t - 1)) % 2
        sticky == P[4] % 2^(t - 1) # 0 \/ P[3] # 0 \/ P[2] # 0 \/ P[1] # 0
        up == guard = 1 /\ (sticky \/ q[1] % 2 = 1)
    IN  DNormal(q[3] + q[4] * 2^14, q[1] + q[2] * 2^14 + (IF up THEN 1 ELSE 0),
                x[3] + y[3] + 42 + t)

\* twice the number <<hi, lo>>, plus the bit b
DDouble(v, b) == <<2 * v[1] + (2 * v[2] + b) \div Two28, (2 * v[2] + b) % Two28>>

DAtLeast(v, m) == v[1] > m[1] \/ (v[1] = m[1] /\ v[2] >= m[2])

DMinus(v, m) ==
    <<v[1] - m[1] - (IF v[2] < m[2] THEN 1 ELSE 0), (v[2] - m[2]) % Two28>>

\* long division of 2^106 by the significand m = <<hi, lo>>, bit by bit, until
\* the quotient q has its 54 bits: r is the remainder so far
RECURSIVE DDivide(_, _, _)
DDivide(m, r, q) ==
    IF q[1] >= 2 * 2^24 THEN <<q, r>>
    ELSE IF DAtLeast(DDouble(r, 0), m)
         THEN DDivide(m, DMinus(DDouble(r, 0), m), DDouble(q, 1))
         ELSE DDivide(m, DDouble(r, 0), DDouble(q, 0))

\* 1.0 / x in binary64
DInv64(x) ==
    IF x = DUnderflow THEN DOverflow
    ELSE IF x = DOverflow THEN DUnderflow
    ELSE IF x[1] = 2^24 /\ x[2] = 0 THEN DNormal(2^24, 0, -x[3] - 104)
    ELSE
    LET m == <<x[1], x[2]>>
        borrow == IF x[2] > 0 THEN 1 ELSE 0
        d == DDivide(m, <<2 * 2^24 - x[1] - borrow, (Two28 - x[2]) % Two28>>,
                     <<0, 1>>)
        quo == d[1]
        rem == d[2]
        mh == quo[1] \div 2
        ml == quo[2] \div 2 + (quo[1] % 2) * 2^27
        up == quo[2] % 2 = 1 /\ (rem # <<0, 0>> \/ ml % 2 = 1)
    IN  DNormal(mh, ml + (IF up THEN 1 ELSE 0), -x[3] - 105)

\* damp * ddamp and 1.0 / ddamp
DMul(x, y) == IF Len(x) = 2 THEN <<x[1] + y[1], x[2] + y[2]>> ELSE DMul64(x, y)
DInv(x) == IF Len(x) = 2 THEN <<-x[1], -x[2]>> ELSE DInv64(x)

------------------------------------------------------------------------------
(* The State s: its contract.                                              *)

\* indices of the global parameters of s.state
Params == {1, 2}
\* particle indices of s.obj
Particles == {1, 2}
\* the three image axes
Axes == {1, 2, 3}
\* values a global parameter takes
Vals == 0 .. MaxVal
\* entries of a step of the linear solve
StepVals == -1 .. 1
\* the values of num_iter a call is given
NumIters == {1, 2}

Min2(a, b) == IF a < b THEN a ELSE b
Max2(a, b) == IF a > b THEN a ELSE b

Sq(x) == x * x

\* the observed image, pixel by pixel
ImageOfParam(i) == 1
ImageOfPos(p, a) == IF a = 1 THEN 0 ELSE 2
ImageOfRad(p) == 2

\* the model image at the pixel of a global parameter: not linear in it
ModelOfParam(v) == v * v

\* s.image[s.inner].size: one pixel for each global parameter, then four
\* pixels (x, y, z, radius) for each particle
TotPix == Cardinality(Params) + 4 * Cardinality(Particles)

\* the sum of d*d over the four pixels of particle p
ParticleErr(ps, rd, p) ==
    Sq(ImageOfPos(p, 1) - ps[p][1]) + Sq(ImageOfPos(p, 2) - ps[p][2])
    + Sq(ImageOfPos(p, 3) - ps[p][3]) + Sq(ImageOfRad(p) - rd[p])

\* get_err(s): np.sum(d*d), d being s.get_difference_image(), the residual
\* image minus model pixel by pixel
GetErr(st, ps, rd) ==
    Sq(ImageOfParam(1) - ModelOfParam(st[1])) + Sq(ImageOfParam(2) - ModelOfParam(st[2]))
    + ParticleErr(ps, rd, 1) + ParticleErr(ps, rd, 2)

------------------------------------------------------------------------------
(* get_num_px_jtj *)

\* px_mem = int(max_mem / 8 / nparams)
PxMem(max_mem, nparams) == max_mem \div (8 * nparams)
\* px_red = min_redundant * nparams
PxRed(min_redundant, nparams) == min_redundant * nparams
\* px_dec = s.image[s.inner].size / decimate, the quotient of two integers
PxDec(size, decimate) == size \div decimate
\* np.clip(a, lo, hi)
Clip(a, lo, hi) == Min2(Max2(a, lo), hi)

\* a test that never raises
PxNeverInsufficient(max_mem, min_redundant, nparams) == FALSE

\* the test before the raise of 'Insufficient max_mem for desired redundancy.'
PxInsufficient(max_mem, min_redundant, nparams) ==
    PxRed(min_redundant, nparams) > PxMem(max_mem, nparams)

\* a pixel count that is not clipped
GetNumPxJtjUnclipped(size, nparams, decimate, max_mem, min_redundant) ==
    PxDec(size, decimate)

\* the value get_num_px_jtj returns when it does not raise
GetNumPxJtj(size, nparams, decimate, max_mem, min_redundant) ==
    Clip(PxDec(size, decimate), PxRed(min_redundant, nparams), PxMem(max_mem, nparams))

------------------------------------------------------------------------------
(* update_state_global and eval_deriv *)

\* update_state_global(s, block, data): new_state[block] = data, then every
\* component of s is set from new_state
UpdateStateGlobal(st, blk, data) ==
    [i \in DOMAIN st |-> IF i \in blk THEN data[i] ELSE st[i]]

\* the step dl of the finite difference, in units of the parameter grid
EvalDl == 1

\* eval_deriv(s, b): the value s.state[b] is left with
EvalDerivLeaves(v, be_nice, threept) ==
    IF be_nice THEN v
    ELSE IF threept THEN v - EvalDl
    ELSE v + EvalDl

\* calculate_J_approx: eval_deriv on every block of s.explode(block), in turn
\* a Jacobian that is evaluated for every parameter of the state
CalculateJAll(st, blk, be_nice, threept) ==
    [i \in DOMAIN st |-> EvalDerivLeaves(st[i], be_nice, threept)]

CalculateJ(st, blk, be_nice, threept) ==
    [i \in DOMAIN st |->
        IF i \in blk THEN EvalDerivLeaves(st[i], be_nice, threept) ELSE st[i]]

\* the free parameters s.state[block]
Snapshot(st, blk) == [i \in blk |-> st[i]]

\* min_eigval=1e-12, the default of find_LM_updates, in units of 1e-12
MinEigvalDefault == 1

\* the min_eigval of find_LM_updates(JTJ, grad, damp=damp): the calls of
\* do_levmarq and do_levmarq_particles pass JTJ, the gradient and damp only
SolveCutoff == MinEigvalDefault

\* the results find_LM_updates may return for the free parameters p: a step
\* for every free parameter (the model keeps the trial point on the value grid)
LMUpdates(p) ==
    {d \in [DOMAIN p -> StepVals] : \A i \in DOMAIN p : p[i] + d[i] \in Vals}

VecAdd(p, d) == [i \in DOMAIN p |-> p[i] + d[i]]

------------------------------------------------------------------------------
(* The accept/reject logic of an outer iteration (do_levmarq and, copied,  *)
(* do_levmarq_particles)                                                   *)

\* np.min([err0, err1]) > err_start: 'Bad step'
\* a test that rejects no step
BadStepNever(e0, e1, es) == FALSE

BadStep(e0, e1, es) == Min2(e0, e1) > es

\* counter += 0.1 of a bad step
\* a rejected step that leaves the counter alone
CounterKept(c) == c

CounterAfterBadStep(c) == F64Add(c, F64Tenth)

\* counter += 1 of a good step
CounterAfterGoodStep(c) == F64Add(c, F64FromInt(1))

\* bad step: damp *= (ddamp*ddamp) unless err0 < err1
\* a rejected step that multiplies damp by ddamp once
DampAfterBadStepOnce(dmp, ddmp, e0, e1) ==
    IF e0 < e1 THEN dmp ELSE DMul(dmp, ddmp)

DampAfterBadStep(dmp, ddmp, e0, e1) ==
    IF e0 < e1 THEN dmp ELSE DMul(dmp, DMul(ddmp, ddmp))

\* bad step: ddamp = 1.0/ddamp if err0 < err1
\* a rejected step that squares ddamp instead of inverting it
DDampSquared(ddmp, e0, e1) ==
    IF e0 < e1 THEN DMul(ddmp, ddmp) ELSE ddmp

DDampAfterBadStep(ddmp, e0, e1) ==
    IF e0 < e1 THEN DInv(ddmp) ELSE ddmp

\* good step: damp *= ddamp unless err0 < err1
\* an accepted step that leaves damp alone on a tie too
DampAfterGoodStepOrTie(dmp, ddmp, e0, e1) ==
    IF e0 <= e1 THEN dmp ELSE DMul(dmp, ddmp)

DampAfterGoodStep(dmp, ddmp, e0, e1) ==
    IF e0 < e1 THEN dmp ELSE DMul(dmp, ddmp)

\* while counter < num_iter
LoopGoesOn == F64Less(counter, F64FromInt(kw.num_iter))

------------------------------------------------------------------------------
(* do_levmarq *)

NoVec == <<>>
\* no tile has been computed
NoTile == [l |-> <<>>, r |-> <<>>]

\* the model after the bad step: update_state_global(s, block, p0)
\* a rejected step that is left in place
LMNoRestore(s1, blk, p) == s1

LMRestore(s1, blk, p) == UpdateStateGlobal(s1, blk, p)

\* the model after the good step, s1 being the model at p0+d1:
\* update_state_global(s, block, p0+d0) if err0 < err1
\* an accepted step that always keeps the second trial
LMKeepLast(s1, blk, p, dd0, e0, e1) == s1

LMKeep(s1, blk, p, dd0, e0, e1) ==
    IF e0 < e1 THEN UpdateStateGlobal(s1, blk, VecAdd(p, dd0)) ELSE s1

\* blocks = s.explode(block); num_px = get_num_px_jtj(s, block.sum(), **kwargs)
LM_Call ==
    /\ fn = "do_levmarq"
    /\ UNCHANGED <<evals, dir_a, px_inds, delta0, rank, line>>
    /\ UNCHANGED <<dif_tile, region_size>>
    /\ UNCHANGED particle_groups
    /\ pc = "call"
    /\ IF PxInsufficient(kw.max_mem, kw.min_redundant, Cardinality(block))
       THEN /\ pc' = "RuntimeError"
            /\ UNCHANGED <<num_px, recalc_J, counter>>
       ELSE /\ num_px' = GetNumPxJtj(TotPix, Cardinality(block), kw.decimate,
                                     kw.max_mem, kw.min_redundant)
            /\ recalc_J' = TRUE
            /\ counter' = F64FromInt(0)
            /\ pc' = "loop"
    /\ UNCHANGED <<fn, kw, param_ok, state, pos, rad, block, particles, damp, ddamp,
                   p0, err_start, d0, d1, err0, err1, rn, run_p0, hist>>

\* while counter < num_iter: p0 = s.state[block].copy(); err_start = get_err(s)
\* (d0, d1, err0, err1 are assigned anew before they are read again)
LM_LoopTest ==
    /\ fn = "do_levmarq"
    /\ UNCHANGED <<evals, dir_a, px_inds, delta0, rank, line>>
    /\ UNCHANGED <<dif_tile, region_size>>
    /\ UNCHANGED particle_groups
    /\ pc = "loop"
    /\ IF LoopGoesOn
       THEN /\ pc' = "iter"
            /\ p0' = Snapshot(state, block)
            /\ err_start' = GetErr(state, pos, rad)
            /\ d0' = NoVec
            /\ d1' = NoVec
            /\ err0' = 0
            /\ err1' = 0
            /\ run_p0' = NoVec
            /\ rn' = 0
            /\ hist' = [hist EXCEPT !.last = "none", !.old_err = 0, !.new_err = 0]
       ELSE /\ pc' = "done"
            /\ UNCHANGED <<p0, err_start, d0, d1, err0, err1, run_p0, rn, hist>>
    /\ UNCHANGED <<fn, kw, param_ok, state, pos, rad, block, particles, damp, ddamp,
                   counter, recalc_J, num_px>>

\* a rejected step after which J is computed anew all the same
RecalcAfterBadStepAlways == TRUE

\* recalc_J = False, of the 'Bad step' branch
RecalcAfterBadStep == FALSE

\* the end of an outer iteration with a good step: recalc_J = True; counter += 1
LMGoodStepEnds ==
    /\ recalc_J' = TRUE
    /\ counter' = CounterAfterGoodStep(counter)
    /\ pc' = "loop"

\* the body of the while loop, up to the call of do_internal_run (hist.jac_at
\* is the model at the top of the iteration that computed J, JTJ and grad)
LM_Iterate ==
    /\ fn = "do_levmarq"
    /\ UNCHANGED <<evals, dir_a, px_inds, delta0, rank, line>>
    /\ UNCHANGED <<dif_tile, region_size>>
    /\ UNCHANGED particle_groups
    /\ pc = "iter"
    /\ LET sJ == IF recalc_J
                 THEN CalculateJ(state, block, kw.be_nice, kw.threept)
                 ELSE state
       IN  \/ \* update_state_global raises: unsupported parameters
              /\ ~param_ok
              /\ state' = sJ
              /\ pc' = "RuntimeError"
              /\ hist' = [hist EXCEPT !.iters = @ + 1,
                                      !.njac = IF recalc_J THEN @ + 1 ELSE @,
                                      !.jac_at = IF recalc_J THEN state ELSE @,
                                      !.rconds = @ \cup {SolveCutoff}]
              /\ UNCHANGED <<d0, d1, err0, err1, damp, ddamp, counter, recalc_J, rn>>
           \/ /\ param_ok
              /\ \E dd0 \in LMUpdates(p0), dd1 \in LMUpdates(p0) :
                   LET s0 == UpdateStateGlobal(sJ, block, VecAdd(p0, dd0))
                       e0 == GetErr(s0, pos, rad)
                       s1 == UpdateStateGlobal(s0, block, VecAdd(p0, dd1))
                       e1 == GetErr(s1, pos, rad)
                   IN  /\ d0' = dd0
                       /\ d1' = dd1
                       /\ err0' = e0
                       /\ err1' = e1
                       /\ IF BadStep(e0, e1, err_start)
                          THEN /\ state' = LMRestore(s1, block, p0)
                               /\ recalc_J' = RecalcAfterBadStep
                               /\ counter' = CounterAfterBadStep(counter)
                               /\ ddamp' = DDampAfterBadStep(ddamp, e0, e1)
                               /\ damp' = DampAfterBadStep(damp, ddamp, e0, e1)
                               /\ pc' = "loop"
                               /\ hist' = [hist EXCEPT !.iters = @ + 1,
                                                       !.njac = IF recalc_J THEN @ + 1 ELSE @,
                                                       !.jac_at = IF recalc_J THEN state ELSE @,
                                                       !.rconds = @ \cup {SolveCutoff},
                                                       !.prev = "bad",
                                                       !.last = "bad"]
                               /\ UNCHANGED rn
                          ELSE /\ state' = LMKeep(s1, block, p0, dd0, e0, e1)
                               /\ damp' = DampAfterGoodStep(damp, ddamp, e0, e1)
                               /\ hist' = [hist EXCEPT !.iters = @ + 1,
                                                       !.accepts = @ + 1,
                                                       !.njac = IF recalc_J THEN @ + 1 ELSE @,
                                                       !.jac_at = IF recalc_J THEN state ELSE @,
                                                       !.rconds = @ \cup {SolveCutoff},
                                                       !.prev = "good",
                                                       !.last = "good"]
                               /\ UNCHANGED ddamp
                               /\ IF kw.do_run /\ kw.run_length > 0
                                  THEN /\ pc' = "run"
                                       /\ rn' = 0
                                       /\ UNCHANGED <<recalc_J, counter>>
                                  ELSE /\ LMGoodStepEnds
                                       /\ UNCHANGED rn
    /\ UNCHANGED <<fn, kw, param_ok, pos, rad, block, particles, num_px, p0,
                   err_start, run_p0>>

\* an inner run that also stops at a step that leaves the error as it was
RunStepNoBetter(new_err, old_err) == new_err >= old_err

\* if new_err > old_err: done running
RunStepWorse(new_err, old_err) == new_err > old_err

\* one pass of the for loop of do_internal_run (hist.old_err and hist.new_err
\* are its old_err and new_err)
LM_RunStep ==
    /\ fn = "do_levmarq"
    /\ UNCHANGED <<evals, dir_a, px_inds, delta0, rank, line>>
    /\ UNCHANGED <<dif_tile, region_size>>
    /\ UNCHANGED particle_groups
    /\ pc = "run"
    /\ LET p == Snapshot(state, block)
           old_err == GetErr(state, pos, rad)
       IN  \E dnew \in LMUpdates(p) :
             LET s2 == UpdateStateGlobal(state, block, VecAdd(p, dnew))
                 new_err == GetErr(s2, pos, rad)
             IN  /\ run_p0' = p
                 /\ IF RunStepWorse(new_err, old_err)
                    THEN /\ state' = UpdateStateGlobal(s2, block, p)
                         /\ hist' = [hist EXCEPT !.last = "run_back",
                                                 !.old_err = old_err,
                                                 !.new_err = new_err,
                                                 !.rconds = @ \cup {SolveCutoff}]
                         /\ LMGoodStepEnds
                         /\ UNCHANGED rn
                    ELSE /\ state' = s2
                         /\ hist' = [hist EXCEPT !.last = "run_on",
                                                 !.old_err = old_err,
                                                 !.new_err = new_err,
                                                 !.rconds = @ \cup {SolveCutoff}]
                         /\ rn' = rn + 1
                         /\ IF rn + 1 = kw.run_length
                            THEN LMGoodStepEnds
                            ELSE UNCHANGED <<pc, recalc_J, counter>>
    /\ UNCHANGED <<fn, kw, param_ok, pos, rad, block, particles, damp, ddamp, num_px,
                   p0, err_start, d0, d1, err0, err1>>

------------------------------------------------------------------------------
(* update_one_particle, update_particles, eval_many_particle_grad          *)
(* Positions and radii are in units of 1e-6, the margin of the clipping    *)
(* and the default dl of eval_one_particle_grad.                           *)

\* largest extent of the image along an axis
MaxShape == 3
\* s.image.shape
ImageShape == <<MaxShape, MaxShape, MaxShape>>
\* the 1e-6 of np.clip(pos, 1e-6-p0, ...)
ClipEps == 1
\* dl=1e-6 of eval_one_particle_grad
ParticleDl == 1

\* is_bad_update(p, r)
\* a test that lets every radius pass
IsBadUpdateOfPos(p, r) ==
    \/ \E a \in Axes : p[a] < 0
    \/ \E a \in Axes : p[a] > ImageShape[a]

IsBadUpdate(p, r) ==
    \/ \E a \in Axes : p[a] < 0
    \/ \E a \in Axes : p[a] > ImageShape[a]
    \/ r < 0

\* p0 + pos
Add3(p, d) == <<p[1] + d[1], p[2] + d[2], p[3] + d[3]>>

\* np.clip(pos, 1e-6-p0, s.image.shape-p0-1e-6), along axis a
ClipRel(dp, pp, a) == Clip(dp[a], ClipEps - pp[a], ImageShape[a] - ClipEps - pp[a])

\* np.clip(pos, 1e-6, s.image.shape-1e-6), along axis a
ClipAbs(dp, a) == Clip(dp[a], ClipEps, ImageShape[a] - ClipEps)

\* if relative: pos += p0; rad += r0
WantedPos(pp, dp, relative) == IF relative THEN Add3(pp, dp) ELSE dp
WantedRad(rr, dr, relative) == IF relative THEN rr + dr ELSE dr

\* the update <<pos, rad>> that fix_errors makes of a bad update
\* a bad update that is left as it is
FixedUpdateNone(pp, rr, dp, dr, relative) == <<dp, dr>>

FixedUpdate(pp, rr, dp, dr, relative) ==
    IF relative
    THEN <<<<ClipRel(dp, pp, 1), ClipRel(dp, pp, 2), ClipRel(dp, pp, 3)>>,
           Max2(dr, ClipEps - rr)>>
    ELSE <<<<ClipAbs(dp, 1), ClipAbs(dp, 2), ClipAbs(dp, 3)>>, Max2(dr, ClipEps)>>

\* if is_bad_update(pos, rad): raise ValueError; else the particle is at pos, rad
Commit(pp, rr, p1, r1) ==
    IF IsBadUpdate(p1, r1)
    THEN [raised |-> TRUE, pos |-> pp, rad |-> rr]
    ELSE [raised |-> FALSE, pos |-> p1, rad |-> r1]

\* update_one_particle(s, particle, pos, rad, relative, fix_errors) on a
\* particle at pp with radius rr: whether it raises, and what it commits
UpdateOneParticle(pp, rr, dp, dr, relative, fix_errors) ==
    CHOOSE u \in
        {Commit(pp, rr, WantedPos(pp, s[1], relative), WantedRad(rr, s[2], relative)) :
            s \in {IF fix_errors /\ IsBadUpdate(WantedPos(pp, dp, relative),
                                                WantedRad(rr, dr, relative))
                   THEN FixedUpdate(pp, rr, dp, dr, relative)
                   ELSE <<dp, dr>>}} : TRUE

\* update_particles(s, particles, params, relative, fix_errors), from the
\* a-th particle on: params[a] is <<dx, dy, dz, dr>> for particles[a]
RECURSIVE UpdateParticlesFrom(_, _, _, _, _, _, _)
UpdateParticlesFrom(a, ps, rd, group, params, relative, fix_errors) ==
    IF a > Len(group) THEN [raised |-> FALSE, pos |-> ps, rad |-> rd]
    ELSE LET q == group[a]
             u == UpdateOneParticle(ps[q], rd[q],
                      <<params[a][1], params[a][2], params[a][3]>>, params[a][4],
                      relative, fix_errors)
         IN  IF u.raised THEN [raised |-> TRUE, pos |-> ps, rad |-> rd]
             ELSE UpdateParticlesFrom(a + 1, [ps EXCEPT ![q] = u.pos],
                      [rd EXCEPT ![q] = u.rad], group, params, relative, fix_errors)

UpdateParticles(ps, rd, group, params, relative, fix_errors) ==
    UpdateParticlesFrom(1, ps, rd, group, params, relative, fix_errors)

\* a step of  delta  in the c-th of (x, y, z, radius)
UnitStep(c, delta) ==
    <<IF c = 1 THEN delta ELSE 0, IF c = 2 THEN delta ELSE 0,
      IF c = 3 THEN delta ELSE 0, IF c = 4 THEN delta ELSE 0>>

\* one update_one_particle(s, particle, dx, dr, relative=True) of
\* eval_one_particle_grad; m is [raised, pos, rad] of the particle so far
PerturbFrom(v, d) ==
    IF v.raised THEN v
    ELSE UpdateOneParticle(v.pos, v.rad, <<d[1], d[2], d[3]>>, d[4], TRUE, FALSE)

Perturb(m, c, delta) ==
    CHOOSE r \in {PerturbFrom(v, d) : v \in {m}, d \in {UnitStep(c, delta)}} : TRUE

\* eval_one_particle_grad: the updates made for the c-th of (x, y, z, radius)
EvalParam(m, c, be_nice, threept) ==
    LET m1 == Perturb(m, c, ParticleDl)
        m2 == IF threept THEN Perturb(m1, c, -2 * ParticleDl) ELSE m1
    IN  IF ~be_nice THEN m2
        ELSE IF threept THEN Perturb(m2, c, ParticleDl)
        ELSE Perturb(m2, c, -ParticleDl)

\* eval_one_particle_grad(s, particle, **kwargs): xyz pos, then rad
EvalOneParticleGrad(pp, rr, be_nice, threept) ==
    LET m0 == [raised |-> FALSE, pos |-> pp, rad |-> rr]
        mx == EvalParam(m0, 1, be_nice, threept)
        my == EvalParam(mx, 2, be_nice, threept)
        mz == EvalParam(my, 3, be_nice, threept)
    IN  EvalParam(mz, 4, be_nice, threept)

\* eval_many_particle_grad(s, particles, **kwargs), from the a-th particle on
RECURSIVE EvalManyFrom(_, _, _, _, _, _)
EvalManyFrom(a, ps, rd, group, be_nice, threept) ==
    IF a > Len(group) THEN [raised |-> FALSE, pos |-> ps, rad |-> rd]
    ELSE LET q == group[a]
             m == EvalOneParticleGrad(ps[q], rd[q], be_nice, threept)
             ps2 == [ps EXCEPT ![q] = m.pos]
             rd2 == [rd EXCEPT ![q] = m.rad]
         IN  IF m.raised THEN [raised |-> TRUE, pos |-> ps2, rad |-> rd2]
             ELSE EvalManyFrom(a + 1, ps2, rd2, group, be_nice, threept)

EvalManyParticleGrad(ps, rd, group, be_nice, threept) ==
    EvalManyFrom(1, ps, rd, group, be_nice, threept)

\* steps of one particle that find_LM_updates may return: along x or the
\* radius, and one step along x that is as long as the image is wide
ParticleSteps ==
    {UnitStep(c, delta) : c \in {1, 4}, delta \in StepVals} \cup {UnitStep(1, -MaxShape)}

\* the results find_LM_updates may return for a group of particles
LMParticleUpdates(group) == [1 .. Len(group) -> ParticleSteps]

\* d1 - d0 and -d, for the steps of a group of one or two particles
Sub4(x, y) == <<x[1] - y[1], x[2] - y[2], x[3] - y[3], x[4] - y[4]>>
Neg4(x) == <<-x[1], -x[2], -x[3], -x[4]>>
StepSub(x, y) ==
    IF Len(x) = 1 THEN <<Sub4(x[1], y[1])>>
    ELSE <<Sub4(x[1], y[1]), Sub4(x[2], y[2])>>
StepNeg(x) == IF Len(x) = 1 THEN <<Neg4(x[1])>> ELSE <<Neg4(x[1]), Neg4(x[2])>>

------------------------------------------------------------------------------
(* do_levmarq_particles *)

\* the 1e-3 of  get_err(s) > (err_start + 1e-3), in thousandths of the unit of
\* the error
ErrTolMilli == 1

\* get_err(s) > (err_start + 1e-3): 'Problem with putting back d1; resetting'
NeedsReset(e, es) == 1000 * e > 1000 * es + ErrTolMilli

\* bad step: update_particles(s, particles, -d1md0-d0, relative=True)
LMPPutBack(ps, rd, group, dd0, d1md0) ==
    UpdateParticles(ps, rd, group, StepSub(StepNeg(d1md0), dd0), TRUE, FALSE)

\* good step: update_particles(s, particles, d1md0, relative=True) if err0 < err1
LMPKeep(ps, rd, group, d1md0, e0, e1) ==
    IF e0 < e1 THEN UpdateParticles(ps, rd, group, d1md0, TRUE, FALSE)
    ELSE [raised |-> FALSE, pos |-> ps, rad |-> rd]

\* recalc_J = True; counter = 0
LMP_Call ==
    /\ fn = "do_levmarq_particles"
    /\ UNCHANGED <<evals, dir_a, px_inds, delta0, rank, line>>
    /\ UNCHANGED <<dif_tile, region_size>>
    /\ UNCHANGED particle_groups
    /\ pc = "call"
    /\ recalc_J' = TRUE
    /\ counter' = F64FromInt(0)
    /\ pc' = "loop"
    /\ UNCHANGED <<fn, kw, param_ok, state, pos, rad, block, particles, damp, ddamp,
                   num_px, p0, err_start, d0, d1, err0, err1, rn, run_p0, hist>>

\* while counter < num_iter: err_start = get_err(s)
\* (d0, d1, err0, err1 are assigned anew before they are read again)
LMP_LoopTest ==
    /\ fn = "do_levmarq_particles"
    /\ UNCHANGED <<evals, dir_a, px_inds, delta0, rank, line>>
    /\ UNCHANGED <<dif_tile, region_size>>
    /\ UNCHANGED particle_groups
    /\ pc = "loop"
    /\ IF LoopGoesOn
       THEN /\ pc' = "iter"
            /\ err_start' = GetErr(state, pos, rad)
            /\ d0' = NoVec
            /\ d1' = NoVec
            /\ err0' = 0
            /\ err1' = 0
            /\ rn' = 0
            /\ hist' = [hist EXCEPT !.last = "none", !.start_pos = pos,
                                    !.start_rad = rad]
       ELSE /\ pc' = "done"
            /\ UNCHANGED <<err_start, d0, d1, err0, err1, rn, hist>>
    /\ UNCHANGED <<fn, kw, param_ok, state, pos, rad, block, particles, damp, ddamp,
                   counter, recalc_J, num_px, p0, run_p0>>

\* an exception leaves do_levmarq_particles with the particles at ps, rd
LMPRaises(ps, rd, what) ==
    /\ pos' = ps
    /\ rad' = rd
    /\ pc' = "ValueError"
    /\ hist' = [hist EXCEPT !.iters = @ + 1, !.last = what,
                            !.rconds = IF what = "raise_J" THEN @ ELSE @ \cup {SolveCutoff}]
    /\ UNCHANGED <<damp, ddamp, counter, recalc_J, rn>>

\* the body of the while loop, up to the call of do_internal_run; the steps
\* d0, d1 are not read after the branch on err0, err1 and are not kept
LMP_Iterate ==
    /\ fn = "do_levmarq_particles"
    /\ UNCHANGED <<evals, dir_a, px_inds, delta0, rank, line>>
    /\ UNCHANGED <<dif_tile, region_size>>
    /\ UNCHANGED particle_groups
    /\ pc = "iter"
    /\ \E ev \in {IF recalc_J
                  THEN EvalManyParticleGrad(pos, rad, particles, kw.be_nice, kw.threept)
                  ELSE [raised |-> FALSE, pos |-> pos, rad |-> rad]} :
           \/ \* an update of eval_one_particle_grad raises
              /\ ev.raised
              /\ LMPRaises(ev.pos, ev.rad, "raise_J")
              /\ UNCHANGED <<err0, err1>>
           \/ /\ ~ev.raised
              /\ \E dd0 \in LMParticleUpdates(particles), dd1 \in LMParticleUpdates(particles) :
                 \E d1md0 \in {StepSub(dd1, dd0)} :
                 \E u0 \in {UpdateParticles(ev.pos, ev.rad, particles, dd0, TRUE, TRUE)} :
                 \E u1 \in {UpdateParticles(u0.pos, u0.rad, particles, d1md0, TRUE, TRUE)} :
                 \E e0 \in {GetErr(state, u0.pos, u0.rad)}, e1 \in {GetErr(state, u1.pos, u1.rad)} :
                       /\ err0' = e0
                       /\ err1' = e1
                       /\ IF BadStep(e0, e1, err_start)
                          THEN \E back \in {LMPPutBack(u1.pos, u1.rad, particles, dd0, d1md0)} :
                               IF back.raised
                               THEN LMPRaises(back.pos, back.rad, "raise_bad")
                               ELSE /\ pos' = back.pos
                                    /\ rad' = back.rad
                                    /\ recalc_J' = FALSE
                                    /\ counter' = CounterAfterBadStep(counter)
                                    /\ ddamp' = DDampAfterBadStep(ddamp, e0, e1)
                                    /\ damp' = DampAfterBadStep(damp, ddamp, e0, e1)
                                    /\ pc' = "loop"
                                    /\ hist' = [hist EXCEPT
                                         !.iters = @ + 1,
                                         !.rconds = @ \cup {SolveCutoff},
                                         !.last = IF NeedsReset(GetErr(state, back.pos, back.rad),
                                                                err_start)
                                                  THEN "bad_reset" ELSE "bad"]
                                    /\ UNCHANGED rn
                          ELSE \E kept \in {LMPKeep(u1.pos, u1.rad, particles, d1md0, e0, e1)} :
                               IF kept.raised
                               THEN LMPRaises(kept.pos, kept.rad, "raise_good")
                               ELSE /\ pos' = kept.pos
                                    /\ rad' = kept.rad
                                    /\ damp' = DampAfterGoodStep(damp, ddamp, e0, e1)
                                    /\ hist' = [hist EXCEPT !.iters = @ + 1,
                                                            !.accepts = @ + 1,
                                                            !.rconds = @ \cup {SolveCutoff},
                                                            !.last = "good"]
                                    /\ UNCHANGED ddamp
                                    /\ IF kw.do_run /\ kw.run_length > 0
                                       THEN /\ pc' = "run"
                                            /\ rn' = 0
                                            /\ UNCHANGED <<recalc_J, counter>>
                                       ELSE /\ LMGoodStepEnds
                                            /\ UNCHANGED rn
    /\ UNCHANGED <<fn, kw, param_ok, state, block, particles, num_px, p0, err_start,
                   d0, d1, run_p0>>

\* one pass of the for loop of do_internal_run (err0, err1 are not read again
\* before the next outer iteration assigns them)
LMP_RunStep ==
    /\ fn = "do_levmarq_particles"
    /\ UNCHANGED <<evals, dir_a, px_inds, delta0, rank, line>>
    /\ UNCHANGED <<dif_tile, region_size>>
    /\ UNCHANGED particle_groups
    /\ pc = "run"
    /\ \E dnew \in LMParticleUpdates(particles) :
       \E old_err \in {GetErr(state, pos, rad)} :
       \E u \in {UpdateParticles(pos, rad, particles, dnew, TRUE, TRUE)} :
       \E new_err \in {GetErr(state, u.pos, u.rad)} :
             IF new_err > old_err
             THEN \E back \in {UpdateParticles(u.pos, u.rad, particles, StepNeg(dnew),
                                               TRUE, TRUE)} :
                      /\ pos' = back.pos
                      /\ rad' = back.rad
                      /\ hist' = [hist EXCEPT !.last = "run_back",
                                              !.rconds = @ \cup {SolveCutoff}]
                      /\ LMGoodStepEnds
                      /\ UNCHANGED rn
             ELSE /\ pos' = u.pos
                  /\ rad' = u.rad
                  /\ hist' = [hist EXCEPT !.last = "run_on",
                                          !.rconds = @ \cup {SolveCutoff}]
                  /\ rn' = rn + 1
                  /\ IF rn + 1 = kw.run_length
                     THEN LMGoodStepEnds
                     ELSE UNCHANGED <<pc, recalc_J, counter>>
    /\ err0' = 0
    /\ err1' = 0
    /\ UNCHANGED <<fn, kw, param_ok, state, block, particles, damp, ddamp, num_px,
                   p0, err_start, d0, d1, run_p0>>

------------------------------------------------------------------------------
(* do_line_min.  minimize_scalar (scipy) is modelled by its result: res.x is *)
(* a point of the line, res.fun is for_min(res.x), and the last point it     *)
(* evaluated, at which for_min has left the model, is any point of the line  *)

\* a test that takes every result
LineMinTakesAll(fun, start_err) == TRUE

\* if res.fun <= start_err
LineMinTakes(fun, start_err) == fun <= start_err

\* do_line_min from the parameters st: x is p0 + res.x*vec, last is the point
\* of the last for_min of minimize_scalar:
\* if res.fun <= start_err: _ = for_min(res.x); else: raise RuntimeError('wtf')
DoLineMin(st, blk, ps, rd, x, last) ==
    LET sx == UpdateStateGlobal(st, blk, x)
        fun == GetErr(sx, ps, rd)
    IN  IF LineMinTakes(fun, GetErr(st, ps, rd))
        THEN [raised |-> FALSE, state |-> sx, fun |-> fun]
        ELSE [raised |-> TRUE, state |-> UpdateStateGlobal(st, blk, last), fun |-> fun]

\* the points p0 + t*vec of the line that are on the grid of the values
LinePoints(p, vec) ==
    {x \in [DOMAIN p -> Vals] :
        \E t \in -MaxVal .. MaxVal : \A i \in DOMAIN p : x[i] = p[i] + t * vec[i]}

\* do_line_min(s, block, vec)
LineMin_Call ==
    /\ fn = "do_line_min"
    /\ UNCHANGED <<evals, dir_a, px_inds, delta0, rank, line>>
    /\ UNCHANGED <<dif_tile, region_size>>
    /\ pc = "call"
    /\ err_start' = GetErr(state, pos, rad)
    /\ p0' = Snapshot(state, block)
    /\ \/ \* update_state_global raises in the first for_min
          /\ ~param_ok
          /\ pc' = "RuntimeError"
          /\ hist' = [hist EXCEPT !.last = "raise"]
          /\ UNCHANGED state
       \/ /\ param_ok
          /\ \E x \in LinePoints(Snapshot(state, block), kw.vec),
                last \in LinePoints(Snapshot(state, block), kw.vec) :
             \E o \in {DoLineMin(state, block, pos, rad, x, last)} :
                /\ state' = o.state
                /\ pc' = IF o.raised THEN "RuntimeError" ELSE "done"
                /\ hist' = [hist EXCEPT !.last = IF o.raised THEN "wtf" ELSE "line_min",
                                        !.res_fun = o.fun]
    /\ UNCHANGED <<fn, kw, param_ok, pos, rad, block, particles, damp, ddamp, counter,
                   recalc_J, num_px, d0, d1, err0, err1, rn, run_p0, particle_groups>>

------------------------------------------------------------------------------
(* do_conj_grad_jtj *)

\* the num_sweeps given to do_conj_grad_jtj
NumSweeps == {1, 2}

\* num_px = get_num_px_jtj(s, block.sum(), **kwargs); blocks = s.explode(block)
CG_Call ==
    /\ fn = "do_conj_grad_jtj"
    /\ UNCHANGED <<evals, dir_a, px_inds, delta0, rank, line>>
    /\ UNCHANGED <<dif_tile, region_size>>
    /\ UNCHANGED particle_groups
    /\ pc = "call"
    /\ IF PxInsufficient(kw.max_mem, kw.min_redundant, Cardinality(block))
       THEN /\ pc' = "RuntimeError"
            /\ UNCHANGED num_px
       ELSE /\ num_px' = GetNumPxJtj(TotPix, Cardinality(block), kw.decimate,
                                     kw.max_mem, kw.min_redundant)
            /\ pc' = "cg_J"
    /\ UNCHANGED <<fn, kw, param_ok, state, pos, rad, block, particles, damp, ddamp,
                   counter, recalc_J, p0, err_start, d0, d1, err0, err1, rn, run_p0,
                   hist>>

\* the eigenvalues are integers up to MaxEig; min_eigval is given in units of
\* 1/EigvalDen
MaxEig == 2
EigvalDen == 2

\* evals of np.linalg.eigh(JTJ) for n free parameters: in ascending order, the
\* largest above 0
EigenLists(n) ==
    {e \in [1 .. n -> 0 .. MaxEig] :
        /\ \A i \in 1 .. (n - 1) : e[i] <= e[i + 1]
        /\ e[n] > 0}

\* evals.max()
EvalsMax(ev) == CHOOSE m \in {ev[i] : i \in DOMAIN ev} : \A i \in DOMAIN ev : ev[i] <= m

\* a test that skips no direction
DegenerateNever(ev, k, min_eigval) == FALSE

\* if evals[a] < min_eigval*evals.max()
Degenerate(ev, k, min_eigval) == ev[k] * EigvalDen < min_eigval * EvalsMax(ev)

\* the points the last for_min of do_line_min may have left the model at: the
\* point x itself when it is taken (for_min(res.x) is then the last update)
LastPoints(st, blk, ps, rd, x) ==
    IF LineMinTakes(GetErr(UpdateStateGlobal(st, blk, x), ps, rd), GetErr(st, ps, rd))
    THEN {x}
    ELSE [blk -> Vals]

\* J, inds = get_rand_Japprox(s, blocks, num_inds=num_px, **kwargs); JTJ =
\* j_to_jtj(J); grad = calc_im_grad(s, J, inds); evals, evecs = np.linalg.eigh(JTJ);
\* then the first for n in xrange(num_sweeps), for a in xrange(evals.size-1, -1, -1)
CG_J ==
    /\ fn = "do_conj_grad_jtj"
    /\ UNCHANGED <<dif_tile, region_size, px_inds, delta0, rank, line>>
    /\ UNCHANGED particle_groups
    /\ pc = "cg_J"
    /\ state' = CalculateJ(state, block, kw.be_nice, kw.threept)
    /\ evals' \in EigenLists(Cardinality(block))
    /\ dir_a' = Cardinality(block)
    /\ hist' = [hist EXCEPT !.njac = hist.njac + 1]
    /\ rn' = 0
    /\ pc' = IF kw.num_sweeps > 0 THEN "cg_dir" ELSE "done"
    /\ UNCHANGED <<fn, kw, param_ok, pos, rad, block, particles, damp, ddamp, counter,
                   recalc_J, num_px, p0, err_start, d0, d1, err0, err1, run_p0>>

\* one pass of the inner for loop, on the eigen-direction dir_a of sweep rn:
\* the direction is skipped as degenerate, or do_line_min(s, block, cur_vec)
\* leaves the parameters at the point x its minimisation ends on, raising
\* 'wtf' when the error there is above the error it started from (its locals
\* start_err and p0 are not kept); then the next a, or the next sweep
CG_Direction ==
    /\ fn = "do_conj_grad_jtj"
    /\ UNCHANGED <<dif_tile, region_size, px_inds, delta0, rank, line>>
    /\ UNCHANGED particle_groups
    /\ pc = "cg_dir"
    /\ LET last_a == dir_a = 1
           go_on == IF last_a /\ rn + 1 >= kw.num_sweeps THEN "done" ELSE "cg_dir"
       IN  IF Degenerate(evals, dir_a, kw.min_eigval)
           THEN /\ pc' = go_on
                /\ hist' = [hist EXCEPT !.last = "degenerate"]
                /\ UNCHANGED state
           ELSE /\ \/ /\ ~param_ok
                      /\ pc' = "RuntimeError"
                      /\ hist' = [hist EXCEPT !.last = "raise"]
                      /\ UNCHANGED state
                   \/ /\ param_ok
                      /\ \E x \in [block -> Vals] :
                         \E last \in LastPoints(state, block, pos, rad, x) :
                         \E o \in {DoLineMin(state, block, pos, rad, x, last)} :
                            /\ state' = o.state
                            /\ pc' = IF o.raised THEN "RuntimeError" ELSE go_on
                            /\ hist' = [hist EXCEPT
                                           !.last = IF o.raised THEN "wtf" ELSE "line_min"]
    /\ dir_a' = IF dir_a = 1 THEN Cardinality(block) ELSE dir_a - 1
    /\ rn' = IF dir_a = 1 THEN rn + 1 ELSE rn
    /\ UNCHANGED <<fn, kw, param_ok, pos, rad, block, particles, damp, ddamp, counter,
                   recalc_J, num_px, p0, err_start, d0, d1, err0, err1, run_p0, evals>>

------------------------------------------------------------------------------
(* get_rand_Japprox on its own.  px_inds is the sequence of the pixels J is  *)
(* evaluated on: inds unravelled, or every pixel for the three full slices.  *)

\* the largest num_inds asked for
MaxInds == 7

\* the shapes of s.image[s.inner]
InnerShapes == {<<1, 2, 2>>, <<2, 1, 3>>}

\* s.image[s.inner].size
InnerSize(shape) == shape[1] * shape[2] * shape[3]

\* a draw of n flat indices below tot that may repeat
RandomChoiceWithReplacement(tot, n) == [1 .. n -> 0 .. (tot - 1)]

\* np.random.choice(tot_pix, size=num_inds, replace=False): n flat indices
\* below tot, no two of them equal
RandomChoice(tot, n) ==
    {q \in [1 .. n -> 0 .. (tot - 1)] : \A i, j \in 1 .. n : i # j => q[i] # q[j]}

\* np.unravel_index(k, shape), in C order
UnravelIndex(k, shape) ==
    <<k \div (shape[2] * shape[3]), (k \div shape[3]) % shape[2], k % shape[3]>>

\* [slice(0,None), slice(0,None), slice(0,None)]: every pixel, in C order
AllPixels(shape) == [m \in 1 .. InnerSize(shape) |-> UnravelIndex(m - 1, shape)]

\* get_rand_Japprox(s, blocks, num_inds): the choice of inds, then
\* calculate_J_approx, which runs eval_deriv on every block
Japprox_Call ==
    /\ fn = "get_rand_Japprox"
    /\ pc = "call"
    /\ LET tot_pix == InnerSize(kw.shape)
       IN  IF kw.num_inds < tot_pix
           THEN \E q \in RandomChoice(tot_pix, kw.num_inds) :
                   px_inds' = [i \in 1 .. kw.num_inds |-> UnravelIndex(q[i], kw.shape)]
           ELSE px_inds' = AllPixels(kw.shape)
    /\ state' = CalculateJ(state, block, kw.be_nice, kw.threept)
    /\ hist' = [hist EXCEPT !.njac = hist.njac + 1]
    /\ pc' = "done"
    /\ UNCHANGED <<fn, kw, param_ok, pos, rad, block, particles, damp, ddamp, counter,
                   recalc_J, num_px, p0, err_start, d0, d1, err0, err1, rn, run_p0,
                   dif_tile, region_size, evals, dir_a, delta0, rank, line,
                   particle_groups>>

------------------------------------------------------------------------------
(* find_LM_updates on its own, for two parameters.  JTJ is J.J^T of two rows  *)
(* of equal norm: a symmetric matrix <<<<a, b>>, <<b, a>>>> with |b| <= a,    *)
(* whose eigenvectors are (1, 1) and (1, -1); b = a gives two identical       *)
(* columns.  damp is the fraction <<n, d>> = n/d, and the matrices are kept   *)
(* in units of 1/d so that they stay integer.  min_eigval is 1/inv.           *)

\* largest entry of JTJ
MaxJTJ == 2
\* largest entry of grad, in absolute value
MaxGrad == 1

Abs(x) == IF x < 0 THEN -x ELSE x

\* JTJ of the model
JTJMatrices ==
    {M \in {<<<<a, b>>, <<b, a>>>> : a \in 0 .. MaxJTJ, b \in -MaxJTJ .. MaxJTJ} :
        Abs(M[1][2]) <= M[1][1]}

\* np.diagflat(np.diag(JTJ))
Diagflat(JTJ) ==
    [i \in 1 .. 2 |-> [j \in 1 .. 2 |-> IF i = j THEN JTJ[i][i] ELSE 0]]

\* a solve that leaves the damping out: A0 = JTJ
A0Undamped(JTJ, dmp) ==
    [i \in 1 .. 2 |-> [j \in 1 .. 2 |-> dmp[2] * JTJ[i][j]]]

\* A0 = JTJ + damp*diag, times the denominator of damp
A0(JTJ, dmp) ==
    [i \in 1 .. 2 |-> [j \in 1 .. 2 |->
        dmp[2] * JTJ[i][j] + dmp[1] * Diagflat(JTJ)[i][j]]]

\* np.linalg.lstsq(A, b, rcond=1/inv) for A = <<<<p, q>>, <<q, p>>>> / den: the
\* singular values are |p + q| and |p - q|; those not above rcond times the
\* largest count as zero; the minimum-norm solution sums (v.b/lambda) v over the
\* directions kept.  The solution is num / den, rank the number of directions kept.
Lstsq(A, den, b, inv) ==
    LET lp == A[1][1] + A[1][2]
        lm == A[1][1] - A[1][2]
        smax == Max2(Abs(lp), Abs(lm))
        kp == Abs(lp) > smax \div inv
        km == Abs(lm) > smax \div inv
        dp == IF kp THEN lp ELSE 1
        dm == IF km THEN lm ELSE 1
        cp == IF kp THEN (b[1] + b[2]) * dm ELSE 0
        cm == IF km THEN (b[1] - b[2]) * dp ELSE 0
    IN  [delta0 |-> [num |-> <<den * (cp + cm), den * (cp - cm)>>, den |-> 2 * dp * dm],
         rank |-> (IF kp THEN 1 ELSE 0) + (IF km THEN 1 ELSE 0)]

\* find_LM_updates(JTJ, grad, damp, min_eigval)
FindLMUpdates(JTJ, grad, dmp, inv) ==
    Lstsq(A0(JTJ, dmp), dmp[2], <<-grad[1], -grad[2]>>, inv)

FindLM_Call ==
    /\ fn = "find_LM_updates"
    /\ pc = "call"
    /\ \E o \in {FindLMUpdates(kw.JTJ, kw.grad, kw.damp, kw.min_eigval_inv)} :
          /\ delta0' = o.delta0
          /\ rank' = o.rank
    /\ pc' = "done"
    /\ UNCHANGED <<fn, kw, param_ok, state, pos, rad, block, particles, damp, ddamp,
                   counter, recalc_J, num_px, p0, err_start, d0, d1, err0, err1, rn,
                   run_p0, hist, dif_tile, region_size, evals, dir_a, px_inds, line,
                   particle_groups>>

------------------------------------------------------------------------------
(* do_line_min step by step: the search of the bracket.  The line is the set  *)
(* of the points p0 + x*vec; for_min(x) moves the model to that point and      *)
(* returns the error there, kw.for_min[x] (the State's error along the line,   *)
(* any function).  x is a binary64 number: the points 0, +-2, +-6, ... up to   *)
(* the largest finite one, FloatMax, and +-LineInf beyond it.                  *)

\* the number of triplings of 2 that stay finite (645 in binary64)
MaxTriple == 2
\* the largest finite point of the line
FloatMax == 2 * 3^MaxTriple
\* the infinite point, inf (its sign is the sign of the number)
LineInf == 3 * FloatMax

\* the points x at which do_line_min may evaluate for_min
LinePts ==
    {0, -LineInf, LineInf} \cup {2 * 3^k : k \in 0 .. MaxTriple}
        \cup {-(2 * 3^k) : k \in 0 .. MaxTriple}

\* start *= 3
Triple(x) ==
    IF Abs(x) * 3 > FloatMax
    THEN (IF x < 0 THEN -LineInf ELSE LineInf)
    ELSE 3 * x

\* the locals of do_line_min before it has run
NoLine ==
    [brk_vals |-> <<>>, cnt_val |-> 0, start |-> 0, old |-> 0, new |-> 0,
     run |-> FALSE, bracket |-> <<>>, res |-> <<>>, at |-> 0, nev |-> 0]

\* a test that also leaves the interval on a tie
OutsideOrTie(cnt_val, brk_vals) == cnt_val >= Min2(brk_vals[1], brk_vals[2])

\* if cnt_val > np.min(brk_vals): the min is outside the interval
OutsideBracket(cnt_val, brk_vals) == cnt_val > Min2(brk_vals[1], brk_vals[2])

\* start_err = get_err(s); brk_vals = [for_min(-2.), for_min(2.)];
\* cnt_val = for_min(0); then the choice of the side (line.nev is the number of
\* for_min calls so far modulo 2, line.at the point the model is left at)
Line_Call ==
    /\ fn = "do_line_min"
    /\ pc = "bracket"
    /\ err_start' = kw.for_min[0]
    /\ LET brk_vals == <<kw.for_min[-2], kw.for_min[2]>>
           cnt_val == kw.for_min[0]
           l0 == [line EXCEPT !.brk_vals = brk_vals, !.cnt_val = cnt_val,
                              !.at = 0, !.nev = 1]
       IN  IF OutsideBracket(cnt_val, brk_vals)
           THEN /\ pc' = "expand"
                /\ line' = IF brk_vals[1] < brk_vals[2]
                           THEN [l0 EXCEPT !.run = TRUE, !.bracket = <<-2, 0>>,
                                           !.start = -2, !.old = brk_vals[1]]
                           ELSE [l0 EXCEPT !.run = TRUE, !.bracket = <<0, 2>>,
                                           !.start = 2, !.old = brk_vals[2]]
           ELSE /\ pc' = "minimize"
                /\ line' = [l0 EXCEPT !.bracket = <<-2, 0, 2>>]
    /\ UNCHANGED <<fn, kw, param_ok, state, pos, rad, block, particles, damp, ddamp,
                   counter, recalc_J, num_px, p0, d0, d1, err0, err1, rn,
                   run_p0, hist, dif_tile, region_size, evals, dir_a, px_inds,
                   delta0, rank, particle_groups>>

\* one pass of 'while run: start *= 3; new = for_min(start); run = new < old',
\* and after the last pass bracket = [start] + bracket or bracket.append(start).
\* On the right side start is a Python integer, which never overflows: past the
\* binary64 range start*vec either raises OverflowError or is infinite.
Line_Expand ==
    /\ fn = "do_line_min"
    /\ pc = "expand"
    /\ LET start == Triple(line.start)
           new == kw.for_min[start]
           run == new < line.old
           l1 == [line EXCEPT !.start = start, !.new = new, !.run = run,
                              !.at = start, !.nev = 1 - @]
       IN  \/ /\ start = LineInf
              /\ pc' = "OverflowError"
              /\ line' = [line EXCEPT !.start = start]
           \/ /\ pc' = IF run THEN "expand" ELSE "minimize"
              /\ line' = IF run
                         THEN l1
                         ELSE [l1 EXCEPT !.bracket = IF start < 0
                                                     THEN <<start>> \o @
                                                     ELSE Append(@, start)]
    /\ UNCHANGED <<fn, kw, param_ok, state, pos, rad, block, particles, damp, ddamp,
                   counter, recalc_J, num_px, p0, err_start, d0, d1, err0, err1, rn,
                   run_p0, hist, dif_tile, region_size, evals, dir_a, px_inds,
                   delta0, rank, particle_groups>>

\* res = minimize_scalar(for_min, bracket=bracket, method='Brent',
\* options={'maxiter':maxiter}): at most maxiter iterations, res.x a point of
\* the line; then 'if res.fun <= start_err: _ = for_min(res.x)' or the raise
Line_Minimize ==
    /\ fn = "do_line_min"
    /\ pc = "minimize"
    /\ \E x \in LinePts :
          LET fun == kw.for_min[x]
          IN  /\ line' = [line EXCEPT !.res = <<x, fun>>, !.at = x, !.nev = 1 - @]
              /\ pc' = IF LineMinTakes(fun, err_start) THEN "done" ELSE "RuntimeError"
    /\ UNCHANGED <<fn, kw, param_ok, state, pos, rad, block, particles, damp, ddamp,
                   counter, recalc_J, num_px, p0, err_start, d0, d1, err0, err1, rn,
                   run_p0, hist, dif_tile, region_size, evals, dir_a, px_inds,
                   delta0, rank, particle_groups>>

------------------------------------------------------------------------------
(* eval_deriv and eval_one_particle_grad on their own.  hist.updates counts  *)
(* the model updates of the call.  The coordinates and the radius of the     *)
(* particle are binary64 numbers here (pairs <<hi, lo>> as above): the       *)
(* particle is moved by relative updates, p1 = p0 + pos, and that sum is     *)
(* rounded.                                                                  *)

\* dl = 1e-6 = 0x10c6f7a0b5ed8d * 2^-72, as <<hi, mid, lo>> with
\* dl * 2^84 = hi * 2^56 + mid * 2^28 + lo
F64Dl == <<268, 116891829, 249090048>>

\* round hi * 2^-28 + mid * 2^-56 + ex * 2^-84 to the nearest binary64, ties to even
F64RoundEx(hi, mid, ex) ==
    LET u == F64Ulp(hi)
        q == mid \div u
        r == mid % u
        above == IF u = 1 THEN ex > 2^27 ELSE (2 * r > u \/ (2 * r = u /\ ex > 0))
        tie == IF u = 1 THEN ex = 2^27 ELSE (2 * r = u /\ ex = 0)
        up == above \/ (tie /\ q % 2 = 1)
        l2 == (IF up THEN q + 1 ELSE q) * u
    IN  IF l2 = Two28 THEN <<hi + 1, 0>> ELSE <<hi, l2>>

\* the binary64 sum a + k*t of a binary64 a and k times the binary64 t (k a
\* power of two, so that k*t is exact)
F64AddScaled(a, k, t) ==
    LET e0 == k * t[3]
        m0 == a[2] + k * t[2] + (e0 \div Two28)
    IN  F64RoundEx(a[1] + k * t[1] + (m0 \div Two28), m0 % Two28, e0 % Two28)

\* the updates of the model eval_deriv makes: s.update(block, p0+dl), with
\* threept s.update(block, p0-dl), with be_nice s.update(block, p0)
EvalDerivUpdates(be_nice, threept) ==
    1 + (IF threept THEN 1 ELSE 0) + (IF be_nice THEN 1 ELSE 0)

\* eval_deriv(s, block, dl, be_nice, threept) for the block of one parameter
EvalDeriv_Call ==
    /\ fn = "eval_deriv"
    /\ pc = "call"
    /\ state' = [state EXCEPT ![kw.block] =
                     EvalDerivLeaves(state[kw.block], kw.be_nice, kw.threept)]
    /\ hist' = [hist EXCEPT !.updates = EvalDerivUpdates(kw.be_nice, kw.threept)]
    /\ pc' = "done"
    /\ UNCHANGED <<fn, kw, param_ok, pos, rad, block, particles, damp, ddamp, counter,
                   recalc_J, num_px, p0, err_start, d0, d1, err0, err1, rn, run_p0,
                   dif_tile, region_size, evals, dir_a, px_inds, delta0, rank, line,
                   particle_groups>>

\* is_bad_update(p1, r1) of a binary64 position and radius that are not
\* negative: np.any(p > np.array(s.image.shape))
IsBadUpdateF64(p) == \E a \in Axes : F64Less(F64FromInt(ImageShape[a]), p[a])

\* one update_one_particle(s, particle, dx, dr, relative=True) of
\* eval_one_particle_grad, moving the c-th of (x, y, z, radius) by k*dl; m is
\* [raised, pos, rad, n] of the particle so far, n the updates committed
GradPerturb(m, c, k) ==
    IF m.raised THEN m
    ELSE LET p1 == [a \in Axes |->
                       IF a = c THEN F64AddScaled(m.pos[a], k, F64Dl) ELSE m.pos[a]]
             r1 == IF c = 4 THEN F64AddScaled(m.rad, k, F64Dl) ELSE m.rad
         IN  IF IsBadUpdateF64(p1) THEN [m EXCEPT !.raised = TRUE]
             ELSE [raised |-> FALSE, pos |-> p1, rad |-> r1, n |-> m.n + 1]

\* eval_one_particle_grad: the updates made for the c-th of (x, y, z, radius)
GradParam(m, c, be_nice, threept) ==
    LET m1 == GradPerturb(m, c, 1)
        m2 == IF threept THEN GradPerturb(m1, c, -2) ELSE m1
    IN  IF ~be_nice THEN m2
        ELSE IF threept THEN GradPerturb(m2, c, 1)
        ELSE GradPerturb(m2, c, -1)

\* eval_one_particle_grad(s, particle, dl, threept, be_nice): xyz pos, then rad
EvalOneParticleGradF64(pp, rr, be_nice, threept) ==
    LET m0 == [raised |-> FALSE, pos |-> pp, rad |-> rr, n |-> 0]
        mx == GradParam(m0, 1, be_nice, threept)
        my == GradParam(mx, 2, be_nice, threept)
        mz == GradParam(my, 3, be_nice, threept)
    IN  GradParam(mz, 4, be_nice, threept)

EvalGrad_Call ==
    /\ fn = "eval_one_particle_grad"
    /\ pc = "call"
    /\ \E m \in {EvalOneParticleGradF64(pos[kw.particle], rad[kw.particle],
                                        kw.be_nice, kw.threept)} :
          /\ pos' = [pos EXCEPT ![kw.particle] = m.pos]
          /\ rad' = [rad EXCEPT ![kw.particle] = m.rad]
          /\ hist' = [hist EXCEPT !.updates = m.n]
          /\ pc' = IF m.raised THEN "ValueError" ELSE "done"
    /\ UNCHANGED <<fn, kw, param_ok, state, block, particles, damp, ddamp, counter,
                   recalc_J, num_px, p0, err_start, d0, d1, err0, err1, rn, run_p0,
                   dif_tile, region_size, evals, dir_a, px_inds, delta0, rank, line,
                   particle_groups>>

------------------------------------------------------------------------------
(* get_num_px_jtj on its own *)

MaxSize == 6
MaxMem == 40
MaxDecimate == 3

\* get_num_px_jtj(s, nparams, decimate, max_mem, min_redundant)
Px_Call ==
    /\ fn = "get_num_px_jtj"
    /\ UNCHANGED <<evals, dir_a, px_inds, delta0, rank, line>>
    /\ UNCHANGED <<dif_tile, region_size>>
    /\ UNCHANGED particle_groups
    /\ pc = "call"
    /\ IF PxInsufficient(kw.max_mem, kw.min_redundant, kw.nparams)
       THEN /\ pc' = "RuntimeError"
            /\ UNCHANGED num_px
       ELSE /\ num_px' = GetNumPxJtj(kw.size, kw.nparams, kw.decimate, kw.max_mem,
                                     kw.min_redundant)
            /\ pc' = "done"
    /\ UNCHANGED <<fn, kw, param_ok, state, pos, rad, block, particles, damp, ddamp,
                   counter, recalc_J, p0, err_start, d0, d1, err0, err1, rn, run_p0,
                   hist>>

------------------------------------------------------------------------------
(* find_particles_in_box and separate_particles_into_groups *)

\* the image of separate_particles_into_groups is a cube of GroupShape pixels;
\* a coordinate c of a particle is c/2 pixels
GroupShape == 3
MaxRegion == 3

\* is_in_xi(0) & is_in_xi(1) & is_in_xi(2) for particle p:
\* (pos[:,i] > bounds[0][i]) & (pos[:,i] <= bounds[1][i])
\* a box that holds all of its faces
InBoxWithFaces(ps, p, box) ==
    \A a \in Axes : ps[p][a] >= 2 * box[1][a] /\ ps[p][a] <= 2 * box[2][a]

\* a box without its lower faces: everything below the upper corner
InBoxBelowCorner(ps, p, box) ==
    \A a \in Axes : ps[p][a] <= 2 * box[2][a]

InBox(ps, p, box) ==
    \A a \in Axes : ps[p][a] > 2 * box[1][a] /\ ps[p][a] <= 2 * box[2][a]

\* find_particles_in_box(s, bounds): np.nonzero(in_region)[0]
FindParticlesInBox(ps, box) == {p \in Particles : InBox(ps, p, box)}

\* range(lo, hi, r)
Range(lo, hi, r) ==
    IF hi <= lo THEN <<>> ELSE [k \in 1 .. ((hi - lo + r - 1) \div r) |-> lo + (k - 1) * r]

\* all_boxes: for start_0 in pts[0]: for start_1 in pts[1]: for start_2 in pts[2]
AllBoxes(bounds, rs) ==
    LET pts == [a \in Axes |-> Range(bounds[1][a], bounds[2][a], rs[a])]
        n1 == Len(pts[1])
        n2 == Len(pts[2])
        n3 == Len(pts[3])
        Start(m) == <<pts[1][((m - 1) \div (n2 * n3)) + 1],
                      pts[2][(((m - 1) \div n3) % n2) + 1],
                      pts[3][((m - 1) % n3) + 1]>>
    IN  [m \in 1 .. (n1 * n2 * n3) |->
            <<Start(m), <<Start(m)[1] + rs[1], Start(m)[2] + rs[2], Start(m)[3] + rs[3]>>>>]

\* separate_particles_into_groups(s, region_size, bounds): the groups of the
\* boxes that hold a particle, in the order of the boxes
SeparateParticlesIntoGroups(ps, rs, bounds) ==
    LET boxes == AllBoxes(bounds, rs)
        found == [m \in 1 .. Len(boxes) |-> FindParticlesInBox(ps, boxes[m])]
        HasParticle(g) == g # {}
    IN  SelectSeq(found, HasParticle)

\* bounds = ([0,0,0], s.image.shape)
DefaultBounds == <<<<0, 0, 0>>, <<GroupShape, GroupShape, GroupShape>>>>

\* rs = [region_size]*3 for an int, else region_size
Groups_Call ==
    /\ fn = "separate_particles_into_groups"
    /\ UNCHANGED <<evals, dir_a, px_inds, delta0, rank, line>>
    /\ UNCHANGED <<dif_tile, region_size>>
    /\ pc = "call"
    /\ particle_groups' = SeparateParticlesIntoGroups(pos, kw.region_size, DefaultBounds)
    /\ pc' = "done"
    /\ UNCHANGED <<fn, kw, param_ok, state, pos, rad, block, particles, damp, ddamp,
                   counter, recalc_J, num_px, p0, err_start, d0, d1, err0, err1, rn,
                   run_p0, hist>>

------------------------------------------------------------------------------
(* update_one_particle and update_particles, called on their own *)

\* update_one_particle(s, particle, pos, rad, relative, fix_errors)
UOP_Call ==
    /\ fn = "update_one_particle"
    /\ UNCHANGED <<evals, dir_a, px_inds, delta0, rank, line>>
    /\ UNCHANGED <<dif_tile, region_size>>
    /\ pc = "call"
    /\ \E u \in {UpdateOneParticle(pos[kw.particle], rad[kw.particle], kw.pos, kw.rad,
                                   kw.relative, kw.fix_errors)} :
          /\ pc' = IF u.raised THEN "ValueError" ELSE "done"
          /\ pos' = [pos EXCEPT ![kw.particle] = u.pos]
          /\ rad' = [rad EXCEPT ![kw.particle] = u.rad]
    /\ UNCHANGED <<fn, kw, param_ok, state, block, particles, damp, ddamp,
                   counter, recalc_J, num_px, p0, err_start, d0, d1, err0, err1, rn,
                   run_p0, hist, particle_groups>>

\* update_particles(s, particles, params, relative, fix_errors)
UP_Call ==
    /\ fn = "update_particles"
    /\ UNCHANGED <<evals, dir_a, px_inds, delta0, rank, line>>
    /\ UNCHANGED <<dif_tile, region_size>>
    /\ pc = "call"
    /\ \E u \in {UpdateParticles(pos, rad, particles, kw.params, kw.relative,
                                 kw.fix_errors)} :
          /\ pc' = IF u.raised THEN "ValueError" ELSE "done"
          /\ pos' = u.pos
          /\ rad' = u.rad
    /\ UNCHANGED <<fn, kw, param_ok, state, block, particles, damp, ddamp,
                   counter, recalc_J, num_px, p0, err_start, d0, d1, err0, err1, rn,
                   run_p0, hist, particle_groups>>

------------------------------------------------------------------------------
(* get_tile_from_multiple_particle_change.  Positions and radii are in      *)
(* pixels here.                                                             *)

\* the padding of the tile of a particle
TilePad == 1

\* s._tile_from_particle_change(p0, r0, t0, p0, r0, t0)[0]: the tile around
\* particle i, inside the image
TileOfParticle(ps, rd, i) ==
    [l |-> <<Max2(0, ps[i][1] - rd[i] - TilePad), Max2(0, ps[i][2] - rd[i] - TilePad),
             Max2(0, ps[i][3] - rd[i] - TilePad)>>,
     r |-> <<Min2(ImageShape[1], ps[i][1] + rd[i] + TilePad),
             Min2(ImageShape[2], ps[i][2] + rd[i] + TilePad),
             Min2(ImageShape[3], ps[i][3] + rd[i] + TilePad)>>]

\* for i in inds: all_left.append(tile.l); all_right.append(tile.r)
AllTiles(ps, rd, inds) == [k \in 1 .. Len(inds) |-> TileOfParticle(ps, rd, inds[k])]

\* np.min(all_left, axis=0)[a], from the k-th tile on
RECURSIVE MinLeftFrom(_, _, _)
MinLeftFrom(tiles, a, k) ==
    IF k = Len(tiles) THEN tiles[k].l[a]
    ELSE Min2(tiles[k].l[a], MinLeftFrom(tiles, a, k + 1))

\* np.max(all_right, axis=0)[a], from the k-th tile on
RECURSIVE MaxRightFrom(_, _, _)
MaxRightFrom(tiles, a, k) ==
    IF k = Len(tiles) THEN tiles[k].r[a]
    ELSE Max2(tiles[k].r[a], MaxRightFrom(tiles, a, k + 1))

\* the tile of the first particle only
TileOfFirst(ps, rd, inds) == TileOfParticle(ps, rd, inds[1])

\* get_tile_from_multiple_particle_change(s, inds): Tile(left, right=right)
GetTileFromMultipleParticleChange(ps, rd, inds) ==
    [l |-> <<MinLeftFrom(AllTiles(ps, rd, inds), 1, 1),
             MinLeftFrom(AllTiles(ps, rd, inds), 2, 1),
             MinLeftFrom(AllTiles(ps, rd, inds), 3, 1)>>,
     r |-> <<MaxRightFrom(AllTiles(ps, rd, inds), 1, 1),
             MaxRightFrom(AllTiles(ps, rd, inds), 2, 1),
             MaxRightFrom(AllTiles(ps, rd, inds), 3, 1)>>]

Tile_Call ==
    /\ fn = "get_tile_from_multiple_particle_change"
    /\ UNCHANGED <<evals, dir_a, px_inds, delta0, rank, line>>
    /\ pc = "call"
    /\ dif_tile' = GetTileFromMultipleParticleChange(pos, rad, kw.inds)
    /\ pc' = "done"
    /\ UNCHANGED <<fn, kw, param_ok, state, pos, rad, block, particles, damp, ddamp,
                   counter, recalc_J, num_px, p0, err_start, d0, d1, err0, err1, rn,
                   run_p0, hist, region_size, particle_groups>>

------------------------------------------------------------------------------
(* do_levmarq_all_particle_groups: the search of the region size             *)

\* s.pad, in pixels
StatePad == 1

\* region_size -= 1, region_size += 1
RegionAdd(rs, d) == [a \in Axes |-> rs[a] + d]

\* calc_mem_usage(region_size) raises: range() with a step of 0, or np.max of
\* an empty list when no box holds a particle (a negative step gives no box)
CalcMemRaises(ps, rs) ==
    IF \E a \in Axes : rs[a] <= 0 THEN TRUE
    ELSE SeparateParticlesIntoGroups(ps, rs, DefaultBounds) = <<>>

\* np.max(map(np.size, particle_groups))
MaxGroupSize(groups) ==
    CHOOSE n \in 1 .. Cardinality(Particles) :
        /\ \E m \in 1 .. Len(groups) : Cardinality(groups[m]) = n
        /\ \A m \in 1 .. Len(groups) : Cardinality(groups[m]) <= n

\* calc_mem_usage(region_size): num_particles * 32 * np.prod(rs + 2*s.pad*np.ones(3))
CalcMemUsage(ps, rs) ==
    MaxGroupSize(SeparateParticlesIntoGroups(ps, rs, DefaultBounds))
        * 32 * (rs[1] + 2 * StatePad) * (rs[2] + 2 * StatePad) * (rs[3] + 2 * StatePad)

\* the result of a search that raised
RegionRaised == [raised |-> TRUE, rs |-> NoVec]

\* while calc_mem_usage(region_size) and np.any(region_size > 2): region_size -= 1
RECURSIVE ShrinkRegion(_, _)
ShrinkRegion(ps, rs) ==
    IF CalcMemRaises(ps, rs) THEN RegionRaised
    ELSE IF CalcMemUsage(ps, rs) # 0 /\ (\E a \in Axes : rs[a] > 2)
         THEN ShrinkRegion(ps, RegionAdd(rs, -1))
         ELSE [raised |-> FALSE, rs |-> rs]

\* while calc_mem_usage(region_size) and np.all(region_size < np.array(s.image.shape)):
\*     region_size += 1
RECURSIVE GrowRegion(_, _)
GrowRegion(ps, rs) ==
    IF CalcMemRaises(ps, rs) THEN RegionRaised
    ELSE IF CalcMemUsage(ps, rs) # 0 /\ (\A a \in Axes : rs[a] < GroupShape)
         THEN GrowRegion(ps, RegionAdd(rs, 1))
         ELSE [raised |-> FALSE, rs |-> rs]

\* if calc_region_size: if calc_mem_usage(region_size) > max_mem: (shrink)
\* else: (grow); region_size -= 1
CalcRegionSize(ps, rs, calc_region_size, max_mem) ==
    IF ~calc_region_size THEN [raised |-> FALSE, rs |-> rs]
    ELSE IF CalcMemRaises(ps, rs) THEN RegionRaised
    ELSE IF CalcMemUsage(ps, rs) > max_mem THEN ShrinkRegion(ps, rs)
    ELSE LET g == GrowRegion(ps, rs)
         IN  IF g.raised THEN g ELSE [raised |-> FALSE, rs |-> RegionAdd(g.rs, -1)]

\* do_levmarq_all_particle_groups up to its for loop: the search of the region
\* size, then particle_groups = separate_particles_into_groups(s,
\* region_size=region_size), which raises on a step of 0
Region_Call ==
    /\ fn = "do_levmarq_all_particle_groups"
    /\ UNCHANGED <<evals, dir_a, px_inds, delta0, rank, line>>
    /\ pc = "region"
    /\ \E o \in {CalcRegionSize(pos, kw.region_size, kw.calc_region_size, kw.max_mem)} :
          IF o.raised
          THEN /\ pc' = "ValueError"
               /\ UNCHANGED <<region_size, particle_groups>>
          ELSE /\ region_size' = o.rs
               /\ IF \E a \in Axes : o.rs[a] = 0
                  THEN /\ pc' = "ValueError"
                       /\ UNCHANGED particle_groups
                  ELSE /\ pc' = "partitioned"
                       /\ particle_groups' =
                              SeparateParticlesIntoGroups(pos, o.rs, DefaultBounds)
    /\ UNCHANGED <<fn, kw, param_ok, state, pos, rad, block, particles, damp, ddamp,
                   counter, recalc_J, num_px, p0, err_start, d0, d1, err0, err1, rn,
                   run_p0, hist, dif_tile>>

------------------------------------------------------------------------------
(* The observations of a call, when it starts from the parameters st and the *)
(* particles ps, rd                                                          *)

Hist0(st, ps, rd) ==
    [entry |-> st, entry_pos |-> ps, entry_rad |-> rd,
     start_pos |-> ps, start_rad |-> rd,
     iters |-> 0, accepts |-> 0, last |-> "none", res_fun |-> 0, njac |-> 0,
     updates |-> 0, rconds |-> {}, prev |-> "none", jac_at |-> NoVec,
     old_err |-> 0, new_err |-> 0,
     caller |-> "none", group |-> 0, resets |-> 0]

------------------------------------------------------------------------------
(* do_levmarq_all_particle_groups.  hist.group is the number of groups the   *)
(* for loop has taken, hist.resets the number of its calls of s.reset().     *)

\* the lists separate_particles_into_groups returns for two particles: the
\* groups are not empty and no particle is in two of them
GroupLists == {<<>>, <<<<1>>>>, <<<<2>>>>, <<<<1>>, <<2>>>>, <<<<2>>, <<1>>>>}

\* particle_groups = separate_particles_into_groups(s, region_size=region_size, **kwargs)
AG_Call ==
    /\ fn = "do_levmarq_all_particle_groups"
    /\ UNCHANGED <<evals, dir_a, px_inds, delta0, rank, line>>
    /\ pc = "call"
    /\ particle_groups' \in GroupLists
    /\ pc' = "for"
    /\ UNCHANGED <<fn, kw, param_ok, state, pos, rad, block, particles, damp, ddamp,
                   counter, recalc_J, num_px, p0, err_start, d0, d1, err0, err1, rn,
                   run_p0, hist, dif_tile, region_size>>

\* the count of s.reset() calls of a loop that never calls it
ResetsKept(n) == n

\* s.reset() after the do_levmarq_particles of a group: the count of calls
ResetsAfterGroup(n) == n + 1

\* for group in particle_groups: do_levmarq_particles(s, group, **kwargs), with
\* its defaults of damp and ddamp
AG_For ==
    /\ fn = "do_levmarq_all_particle_groups"
    /\ UNCHANGED <<evals, dir_a, px_inds, delta0, rank, line>>
    /\ pc = "for"
    /\ IF hist.group < Len(particle_groups)
       THEN /\ fn' = "do_levmarq_particles"
            /\ pc' = "call"
            /\ particles' = particle_groups[hist.group + 1]
            /\ hist' = [hist EXCEPT !.caller = "do_levmarq_all_particle_groups",
                                    !.group = hist.group + 1]
       ELSE /\ pc' = "done"
            /\ UNCHANGED <<fn, particles, hist>>
    /\ UNCHANGED <<kw, param_ok, state, pos, rad, block, damp, ddamp, counter, recalc_J,
                   num_px, p0, err_start, d0, d1, err0, err1, rn, run_p0, dif_tile, region_size,
                   particle_groups>>

\* do_levmarq_particles has returned and its locals are gone: s.reset(), which
\* leaves the parameters and the particles as they are, and on to the next group
AG_Reset ==
    /\ fn = "do_levmarq_particles"
    /\ UNCHANGED <<evals, dir_a, px_inds, delta0, rank, line>>
    /\ hist.caller = "do_levmarq_all_particle_groups"
    /\ pc = "done"
    /\ fn' = "do_levmarq_all_particle_groups"
    /\ pc' = "for"
    /\ hist' = [Hist0(hist.entry, hist.entry_pos, hist.entry_rad) EXCEPT
                   !.caller = "do_levmarq_all_particle_groups",
                   !.group = hist.group,
                   !.resets = ResetsAfterGroup(hist.resets)]
    /\ counter' = F64FromInt(0)
    /\ recalc_J' = TRUE
    /\ damp' = DTenth
    /\ ddamp' = DFifth
    /\ err_start' = 0
    /\ err0' = 0
    /\ err1' = 0
    /\ rn' = 0
    /\ UNCHANGED <<kw, param_ok, state, pos, rad, block, particles, num_px, p0, d0, d1,
                   run_p0, dif_tile, region_size, particle_groups>>

------------------------------------------------------------------------------
(* The calls *)

Pos0 == [p \in Particles |-> <<1, 1, 1>>]
Rad0 == [p \in Particles |-> 1]

\* the local variables before the first outer iteration
Locals0 ==
    /\ counter = F64FromInt(0)
    /\ recalc_J = TRUE
    /\ num_px = 0
    /\ p0 = NoVec
    /\ err_start = 0
    /\ d0 = NoVec
    /\ d1 = NoVec
    /\ err0 = 0
    /\ err1 = 0
    /\ rn = 0
    /\ run_p0 = NoVec
    /\ particle_groups = <<>>
    /\ dif_tile = NoTile
    /\ region_size = NoVec
    /\ evals = NoVec
    /\ dir_a = 0
    /\ px_inds = {}
    /\ delta0 = NoVec
    /\ rank = 0
    /\ line = NoLine

\* do_levmarq(s, block, damp=0.1, ddamp=0.1, num_iter, do_run, run_length, **kwargs)
InitLM ==
    /\ fn = "do_levmarq"
    /\ pc = "call"
    /\ kw \in [num_iter : NumIters, do_run : BOOLEAN,
               run_length : {MaxRunLength}, be_nice : BOOLEAN, threept : {FALSE},
               max_mem : {8, 64}, min_redundant : {2}, decimate : {2}]
    /\ param_ok \in BOOLEAN
    /\ state \in {st \in [Params -> Vals] : st[2] = 1}
    /\ pos = Pos0
    /\ rad = Rad0
    /\ block = {1}
    /\ particles = <<>>
    /\ damp = DTenth
    /\ ddamp = DTenth
    /\ Locals0
    /\ hist = Hist0(state, pos, rad)

\* the num_iter given to do_levmarq_particles
ParticleNumIters == {1}

\* do_levmarq_particles(s, particles, damp=0.1, ddamp=0.2, num_iter, do_run,
\* run_length, **kwargs)
InitLMP ==
    /\ fn = "do_levmarq_particles"
    /\ pc = "call"
    /\ kw \in [num_iter : ParticleNumIters, do_run : BOOLEAN, run_length : {MaxRunLength},
               be_nice : BOOLEAN, threept : {FALSE}]
    /\ param_ok = TRUE
    /\ state = [i \in Params |-> 1]
    /\ pos \in {[Pos0 EXCEPT ![1] = <<x, 1, 1>>] : x \in {0, 1, MaxShape}}
    /\ rad = Rad0
    /\ block = {}
    /\ particles = <<1>>
    /\ damp = DTenth
    /\ ddamp = DFifth
    /\ Locals0
    /\ hist = Hist0(state, pos, rad)

NextLMP == LMP_Call \/ LMP_LoopTest \/ LMP_Iterate \/ LMP_RunStep

SpecLMP == InitLMP /\ [][NextLMP]_vars

NextLM == LM_Call \/ LM_LoopTest \/ LM_Iterate \/ LM_RunStep

SpecLM == InitLM /\ [][NextLM]_vars

\* do_levmarq over both global parameters, whose errors add up: two different
\* trial steps can have the same error
InitLMBoth ==
    /\ fn = "do_levmarq"
    /\ pc = "call"
    /\ kw \in [num_iter : {1}, do_run : BOOLEAN, run_length : {1},
               be_nice : {TRUE}, threept : {FALSE},
               max_mem : {64}, min_redundant : {2}, decimate : {2}]
    /\ param_ok = TRUE
    /\ state \in {st \in [Params -> Vals] : st[1] <= st[2] /\ st[2] <= 2}
    /\ pos = Pos0
    /\ rad = Rad0
    /\ block = Params
    /\ particles = <<>>
    /\ damp = DTenth
    /\ ddamp = DTenth
    /\ Locals0
    /\ hist = Hist0(state, pos, rad)

SpecLMBoth == InitLMBoth /\ [][NextLM]_vars

\* the min_eigval a caller gives: the default 1e-12, and 1e-9
MinEigvals == {MinEigvalDefault, 1000 * MinEigvalDefault}

\* do_levmarq and do_levmarq_particles called with min_eigval among their
\* options
InitCutoff ==
    /\ \/ /\ fn = "do_levmarq"
          /\ kw \in [num_iter : {1}, do_run : BOOLEAN, run_length : {1},
                     be_nice : {TRUE}, threept : {FALSE}, min_eigval : MinEigvals,
                     max_mem : {64}, min_redundant : {2}, decimate : {2}]
          /\ state \in {st \in [Params -> Vals] : st[2] = 1}
          /\ pos = Pos0
          /\ block = {1}
          /\ particles = <<>>
          /\ ddamp = DTenth
       \/ /\ fn = "do_levmarq_particles"
          /\ kw \in [num_iter : ParticleNumIters, do_run : BOOLEAN, run_length : {1},
                     be_nice : {TRUE}, threept : {FALSE}, min_eigval : MinEigvals]
          /\ state = [i \in Params |-> 1]
          /\ pos \in {[Pos0 EXCEPT ![1] = <<x, 1, 1>>] : x \in {1, MaxShape}}
          /\ block = {}
          /\ particles = <<1>>
          /\ ddamp = DFifth
    /\ pc = "call"
    /\ param_ok = TRUE
    /\ rad = Rad0
    /\ damp = DTenth
    /\ Locals0
    /\ hist = Hist0(state, pos, rad)

SpecCutoff == InitCutoff /\ [][NextLM \/ NextLMP]_vars

\* do_conj_grad_jtj(s, block, min_eigval, num_sweeps, **kwargs)
InitCG ==
    /\ fn = "do_conj_grad_jtj"
    /\ pc = "call"
    /\ kw \in [num_sweeps : NumSweeps, be_nice : BOOLEAN, threept : {FALSE},
               min_eigval : 0 .. EigvalDen,
               max_mem : {8, 64}, min_redundant : {2}, decimate : {2}]
    /\ param_ok \in BOOLEAN
    /\ state \in {st \in [Params -> Vals] : st[2] = 1}
    /\ pos = Pos0
    /\ rad = Rad0
    /\ block \in {{1}, {1, 2}}
    /\ particles = <<>>
    /\ damp = DTenth
    /\ ddamp = DTenth
    /\ Locals0
    /\ hist = Hist0(state, pos, rad)

NextCG == CG_Call \/ CG_J \/ CG_Direction

SpecCG == InitCG /\ [][NextCG]_vars

\* get_num_px_jtj for an image of kw.size interior pixels
InitPx ==
    /\ fn = "get_num_px_jtj"
    /\ pc = "call"
    /\ kw \in [size : 0 .. MaxSize, nparams : 1 .. 2, decimate : 1 .. MaxDecimate,
               max_mem : 0 .. MaxMem, min_redundant : 1 .. 2]
    /\ param_ok = TRUE
    /\ state = [i \in Params |-> 1]
    /\ pos = Pos0
    /\ rad = Rad0
    /\ block = {}
    /\ particles = <<>>
    /\ damp = DTenth
    /\ ddamp = DTenth
    /\ Locals0
    /\ hist = Hist0(state, pos, rad)

SpecPx == InitPx /\ [][Px_Call]_vars

\* separate_particles_into_groups(s, region_size, bounds=None): particle 1 at
\* any half pixel of the image, its faces included, particle 2 at the centre
InitGroups ==
    /\ fn = "separate_particles_into_groups"
    /\ pc = "call"
    /\ kw \in [region_size : [Axes -> 1 .. MaxRegion]]
    /\ param_ok = TRUE
    /\ state = [i \in Params |-> 1]
    /\ pos \in {[p \in Particles |->
                   IF p = 1 THEN xyz ELSE <<GroupShape, GroupShape, GroupShape>>] :
                xyz \in (0 .. 2 * GroupShape) \X (0 .. 2 * GroupShape) \X (0 .. 2 * GroupShape)}
    /\ rad = Rad0
    /\ block = {}
    /\ particles = <<>>
    /\ damp = DTenth
    /\ ddamp = DTenth
    /\ Locals0
    /\ hist = Hist0(state, pos, rad)

SpecGroups == InitGroups /\ [][Groups_Call]_vars

\* the ceilings given to the search of the region size: the estimates of one
\* particle in a box of 1, 2 and 3 pixels, and one below the first
MaxMems == {32 * 27 - 1, 32 * 27, 32 * 64, 32 * 125}

\* do_levmarq_all_particle_groups(s, region_size, calc_region_size, max_mem):
\* particle 1 at any half pixel of a line through the image, particle 2 at the
\* centre or at the origin
InitRegion ==
    /\ fn = "do_levmarq_all_particle_groups"
    /\ pc = "region"
    /\ kw \in [region_size : [Axes -> 1 .. MaxRegion], calc_region_size : BOOLEAN,
               max_mem : MaxMems]
    /\ param_ok = TRUE
    /\ state = [i \in Params |-> 1]
    /\ pos \in {[p \in Particles |-> IF p = 1 THEN xyz ELSE c] :
                xyz \in (0 .. 2 * GroupShape) \X {1, GroupShape} \X {GroupShape},
                c \in {<<GroupShape, GroupShape, GroupShape>>, <<0, 0, 0>>}}
    /\ rad = Rad0
    /\ block = {}
    /\ particles = <<>>
    /\ damp = DTenth
    /\ ddamp = DTenth
    /\ Locals0
    /\ hist = Hist0(state, pos, rad)

SpecRegion == InitRegion /\ [][Region_Call]_vars

\* get_rand_Japprox(s, blocks, num_inds, be_nice, threept)
InitJapprox ==
    /\ fn = "get_rand_Japprox"
    /\ pc = "call"
    /\ kw \in [num_inds : 0 .. MaxInds, shape : InnerShapes, be_nice : BOOLEAN,
               threept : {FALSE}]
    /\ param_ok = TRUE
    /\ state = [i \in Params |-> 1]
    /\ pos = Pos0
    /\ rad = Rad0
    /\ block = {1}
    /\ particles = <<>>
    /\ damp = DTenth
    /\ ddamp = DTenth
    /\ Locals0
    /\ hist = Hist0(state, pos, rad)

SpecJapprox == InitJapprox /\ [][Japprox_Call]_vars

\* the damp of a solve: 0, 0.01, 0.1 and the default 1.0
SolveDamps == {<<0, 1>>, <<1, 100>>, <<1, 10>>, <<1, 1>>}
\* 1/min_eigval of a solve: min_eigval = 1e-2 and 1e-8
SolveCutoffInvs == {100, 10^8}

\* find_LM_updates(JTJ, grad, damp, min_eigval)
InitFindLM ==
    /\ fn = "find_LM_updates"
    /\ pc = "call"
    /\ kw \in [JTJ : JTJMatrices, grad : [1 .. 2 -> -MaxGrad .. MaxGrad],
               damp : SolveDamps, min_eigval_inv : SolveCutoffInvs]
    /\ param_ok = TRUE
    /\ state = [i \in Params |-> 1]
    /\ pos = Pos0
    /\ rad = Rad0
    /\ block = Params
    /\ particles = <<>>
    /\ damp = DTenth
    /\ ddamp = DTenth
    /\ Locals0
    /\ hist = Hist0(state, pos, rad)

SpecFindLM == InitFindLM /\ [][FindLM_Call]_vars

\* separate_particles_into_groups(s, region_size) for particles at whole pixels
\* (coordinates 0, 2, .., 2*GroupShape), of radius 0 or 1: particle 1 anywhere,
\* particle 2 on the diagonal of the image
InitGroupTiles ==
    /\ fn = "separate_particles_into_groups"
    /\ pc = "call"
    /\ kw \in [region_size : [Axes -> 1 .. MaxRegion]]
    /\ param_ok = TRUE
    /\ state = [i \in Params |-> 1]
    /\ pos \in {[p \in Particles |-> IF p = 1 THEN <<2 * xyz[1], 2 * xyz[2], 2 * xyz[3]>>
                                              ELSE <<2 * d, 2 * d, 2 * d>>] :
                xyz \in (0 .. GroupShape) \X (0 .. GroupShape) \X (0 .. GroupShape),
                d \in {1, GroupShape}}
    /\ rad \in [Particles -> 0 .. 1]
    /\ block = {}
    /\ particles = <<>>
    /\ damp = DTenth
    /\ ddamp = DTenth
    /\ Locals0
    /\ hist = Hist0(state, pos, rad)

SpecGroupTiles == InitGroupTiles /\ [][Groups_Call]_vars

\* the values of the error along the line
LineErrs == {0, 1, 2}

\* do_line_min(s, block, vec) with the error along the line any function
InitLine ==
    /\ fn = "do_line_min"
    /\ pc = "bracket"
    /\ kw \in [for_min : [LinePts -> LineErrs]]
    /\ param_ok = TRUE
    /\ state = [i \in Params |-> 1]
    /\ pos = Pos0
    /\ rad = Rad0
    /\ block = Params
    /\ particles = <<>>
    /\ damp = DTenth
    /\ ddamp = DTenth
    /\ Locals0
    /\ hist = Hist0(state, pos, rad)

NextLine == Line_Call \/ Line_Expand \/ Line_Minimize

SpecLine == InitLine /\ [][NextLine]_vars

\* do_line_min runs on: no step of it that can be taken is put off forever
SpecLineFair == SpecLine /\ WF_vars(NextLine)

\* eval_deriv(s, block, be_nice, threept), block one of the parameters
InitEvalDeriv ==
    /\ fn = "eval_deriv"
    /\ pc = "call"
    /\ kw \in [block : Params, be_nice : BOOLEAN, threept : BOOLEAN]
    /\ param_ok = TRUE
    /\ state \in [Params -> 1 .. (MaxVal - 1)]
    /\ pos = Pos0
    /\ rad = Rad0
    /\ block = {}
    /\ particles = <<>>
    /\ damp = DTenth
    /\ ddamp = DTenth
    /\ Locals0
    /\ hist = Hist0(state, pos, rad)

\* the binary64 coordinates and radii of the particle: 1, 1.5, 2 and the
\* upper edge of the image
F64Coords == {F64FromInt(1), <<3 * 2^27, 0>>, F64FromInt(2), F64FromInt(MaxShape)}

\* eval_one_particle_grad(s, particle, be_nice, threept)
InitEvalGrad ==
    /\ fn = "eval_one_particle_grad"
    /\ pc = "call"
    /\ kw \in [particle : {1}, be_nice : BOOLEAN, threept : BOOLEAN]
    /\ param_ok = TRUE
    /\ state = [i \in Params |-> 1]
    /\ pos \in {[p \in Particles |-> xyz] : xyz \in F64Coords \X F64Coords \X F64Coords}
    /\ rad \in {[p \in Particles |-> r] : r \in F64Coords}
    /\ block = {}
    /\ particles = <<>>
    /\ damp = DTenth
    /\ ddamp = DTenth
    /\ Locals0
    /\ hist = Hist0(state, pos, rad)

InitDeriv == InitEvalDeriv \/ InitEvalGrad

NextDeriv == EvalDeriv_Call \/ EvalGrad_Call

SpecDeriv == InitDeriv /\ [][NextDeriv]_vars

\* coordinates and radii a caller asks for: from one unit below the image to
\* one unit above it
AskedCoords == -1 .. MaxShape + 1
AskedRads == -1 .. 2

\* update_one_particle(s, particle, pos, rad, relative, fix_errors) on particle
\* 1, which is anywhere in the x-y plane of the image, its edges included
InitUOP ==
    /\ fn = "update_one_particle"
    /\ pc = "call"
    /\ kw \in [particle : {1}, pos : AskedCoords \X AskedCoords \X {1},
               rad : AskedRads, relative : BOOLEAN, fix_errors : BOOLEAN]
    /\ param_ok = TRUE
    /\ state = [i \in Params |-> 1]
    /\ pos \in {[Pos0 EXCEPT ![1] = <<x, y, 1>>] : x, y \in 0 .. MaxShape}
    /\ rad \in {[Rad0 EXCEPT ![1] = r] : r \in 0 .. 2}
    /\ block = {}
    /\ particles = <<>>
    /\ damp = DTenth
    /\ ddamp = DTenth
    /\ Locals0
    /\ hist = Hist0(state, pos, rad)

\* update_particles(s, particles, params, relative=True, fix_errors) on the
\* group of both particles
InitUP ==
    /\ fn = "update_particles"
    /\ pc = "call"
    /\ kw \in [params : [1 .. 2 -> ParticleSteps], relative : {TRUE},
               fix_errors : BOOLEAN]
    /\ param_ok = TRUE
    /\ state = [i \in Params |-> 1]
    /\ pos \in {[p \in Particles |-> <<x[p], 1, 1>>] : x \in [Particles -> {0, 1, MaxShape}]}
    /\ rad \in [Particles -> 0 .. 1]
    /\ block = {}
    /\ particles \in {<<1, 2>>, <<2, 1>>}
    /\ damp = DTenth
    /\ ddamp = DTenth
    /\ Locals0
    /\ hist = Hist0(state, pos, rad)

InitUpdate == InitUOP \/ InitUP

NextUpdate == UOP_Call \/ UP_Call

SpecUpdate == InitUpdate /\ [][NextUpdate]_vars

\* the directions vec of a line minimisation
LineVecs == [Params -> -1 .. 1]

\* do_line_min(s, block, vec) over both global parameters
InitLineMin ==
    /\ fn = "do_line_min"
    /\ pc = "call"
    /\ kw \in [vec : LineVecs]
    /\ param_ok \in BOOLEAN
    /\ state \in [Params -> Vals]
    /\ pos = Pos0
    /\ rad = Rad0
    /\ block = Params
    /\ particles = <<>>
    /\ damp = DTenth
    /\ ddamp = DTenth
    /\ Locals0
    /\ hist = Hist0(state, pos, rad)

SpecLineMin == InitLineMin /\ [][LineMin_Call]_vars

\* get_tile_from_multiple_particle_change(s, inds) for a non-empty inds, the two
\* particles anywhere in the x-y plane of the image
InitTile ==
    /\ fn = "get_tile_from_multiple_particle_change"
    /\ pc = "call"
    /\ kw \in [inds : {<<1>>, <<2>>, <<1, 2>>, <<2, 1>>, <<1, 2, 1>>}]
    /\ param_ok = TRUE
    /\ state = [i \in Params |-> 1]
    /\ pos \in {[p \in Particles |-> <<xy[p][1], xy[p][2], 1>>] :
                xy \in [Particles -> (0 .. MaxShape) \X (0 .. MaxShape)]}
    /\ rad \in [Particles -> 0 .. 1]
    /\ block = {}
    /\ particles = <<>>
    /\ damp = DTenth
    /\ ddamp = DTenth
    /\ Locals0
    /\ hist = Hist0(state, pos, rad)

SpecTile == InitTile /\ [][Tile_Call]_vars

\* do_levmarq_all_particle_groups(s, region_size, **kwargs), kwargs being the
\* options of do_levmarq_particles
InitAG ==
    /\ fn = "do_levmarq_all_particle_groups"
    /\ pc = "call"
    /\ kw \in [num_iter : ParticleNumIters, do_run : {TRUE}, run_length : {1},
               be_nice : {TRUE}, threept : {FALSE}]
    /\ param_ok = TRUE
    /\ state = [i \in Params |-> 1]
    /\ pos \in {[Pos0 EXCEPT ![1] = <<x, 1, 1>>] : x \in {0, MaxShape}}
    /\ rad = Rad0
    /\ block = {}
    /\ particles = <<>>
    /\ damp = DTenth
    /\ ddamp = DFifth
    /\ Locals0
    /\ hist = Hist0(state, pos, rad)

NextAG == AG_Call \/ AG_For \/ AG_Reset \/ NextLMP

SpecAG == InitAG /\ [][NextAG]_vars

\* the optimizers together
Init == InitLM \/ InitLMP \/ InitCG

Next ==
    \/ LM_Call \/ LM_LoopTest \/ LM_Iterate \/ LM_RunStep
    \/ LMP_Call \/ LMP_LoopTest \/ LMP_Iterate \/ LMP_RunStep
    \/ CG_Call \/ CG_J \/ CG_Direction

Spec == Init /\ [][Next]_vars

------------------------------------------------------------------------------
(* Properties *)

\* the error get_err(s) of the state the program is in
ErrNow == GetErr(state, pos, rad)

\* the error when the function was called
ErrEntry == GetErr(hist.entry, hist.entry_pos, hist.entry_rad)

\* C1: in do_levmarq the error at the end of every outer iteration (rejected or
\* accepted, during and after the internal run) is at most the err_start of
\* that iteration, and the error when do_levmarq returns is at most the error
\* when it was called
C1_ErrorNeverIncreases ==
    fn = "do_levmarq" =>
        /\ (pc \in {"loop", "run", "done"} /\ hist.iters > 0) => ErrNow <= err_start
        /\ pc = "done" => ErrNow <= ErrEntry

\* do_levmarq has returned after rejected and accepted iterations, with a
\* lower error than it was called with
C1_Witness ==
    /\ fn = "do_levmarq"
    /\ pc = "done"
    /\ hist.accepts >= 1
    /\ hist.iters > hist.accepts
    /\ ErrNow < ErrEntry

\* C3: in do_levmarq, after a rejected outer iteration s.state[block] is the
\* snapshot p0 of that iteration, and after an inner run step that worsens the
\* error it is the snapshot taken before that step
C3_RollbackIsSnapshot ==
    fn = "do_levmarq" =>
        /\ hist.last = "bad" => Snapshot(state, block) = p0
        /\ hist.last = "run_back" => Snapshot(state, block) = run_p0

\* an inner run step has been put back, in a call that also rejected an outer
\* iteration whose evaluation of J had moved the parameters
C3_Witness ==
    /\ fn = "do_levmarq"
    /\ hist.last = "run_back"
    /\ hist.iters > hist.accepts
    /\ ~kw.be_nice

\* C6: an accepted outer iteration of do_levmarq leaves, before any internal
\* run, s.state[block] = p0+d0 if err0 < err1 and p0+d1 if err1 < err0 (and
\* when the second trial is the one kept); damp becomes damp*ddamp exactly when
\* the second trial is kept, and ddamp does not change
C6_AcceptKeepsLowerStep ==
    [][(fn = "do_levmarq" /\ pc = "iter" /\ hist'.last = "good") =>
          /\ err0' < err1' => Snapshot(state', block) = VecAdd(p0, d0')
          /\ err1' < err0' => Snapshot(state', block) = VecAdd(p0, d1')
          /\ ~(err0' < err1') => Snapshot(state', block) = VecAdd(p0, d1')
          /\ damp' = (IF err0' < err1' THEN damp ELSE DMul(damp, ddamp))
          /\ DMul(damp, ddamp) # damp
          /\ ddamp' = ddamp]_vars

\* the first trial has been kept, by the update that follows the second trial
C6_Witness ==
    /\ fn = "do_levmarq"
    /\ hist.last = "good"
    /\ err0 < err1
    /\ d0 # d1
    /\ Snapshot(state, block) = VecAdd(p0, d0)

\* C2: in do_levmarq_particles, right after the accept branch of an accepted
\* outer iteration (before any internal run) the particles are those of the
\* lower-error trial step: the error equals min(err0, err1) and is at most
\* err_start
C2_AcceptKeepsLowerError ==
    (fn = "do_levmarq_particles" /\ hist.last = "good") =>
        /\ ErrNow = Min2(err0, err1)
        /\ ErrNow <= err_start

\* C4: in do_levmarq_particles, after a rejected outer iteration the positions
\* and radii of the particles of the group are those at the start of the
\* iteration, where err_start was measured
C4_RollbackRestoresParticles ==
    (fn = "do_levmarq_particles" /\ hist.last \in {"bad", "bad_reset"}) =>
        /\ pos = hist.start_pos
        /\ rad = hist.start_rad

\* the two Levenberg-Marquardt loops, each step of which is taken once it can be
\* (every call of the model returns), called at a point where every step is
\* rejected or at a point next to it
InitLoops ==
    \/ InitLM /\ state[1] \in {0, 1}
    \/ InitLMP /\ pos[1][1] \in {0, 1}

NextLoops == NextLM \/ NextLMP

SpecLoops == InitLoops /\ [][NextLoops]_vars /\ WF_vars(NextLoops)

\* the outer iteration that has just ended took the rejected branch
Rejected == hist.last \in {"bad", "bad_reset", "raise_bad"}

\* the outer iteration that has just ended took the accepted branch
Accepted == hist.last \in {"good", "raise_good"}

\* C5: an outer iteration of do_levmarq or do_levmarq_particles is rejected
\* exactly when err0 > err_start and err1 > err_start; a rejected iteration
\* inverts ddamp and leaves damp alone if err0 < err1, and otherwise multiplies
\* damp by ddamp^2 and leaves ddamp alone
C5_RejectRule ==
    [][(pc = "iter" /\ (Rejected' \/ Accepted')) =>
          /\ Rejected' <=> (err0' > err_start /\ err1' > err_start)
          /\ hist'.last \in {"bad", "bad_reset"} =>
                IF err0' < err1'
                THEN ddamp' = DInv(ddamp) /\ damp' = damp
                ELSE damp' = DMul(damp, DMul(ddamp, ddamp)) /\ ddamp' = ddamp]_vars

\* do_levmarq has rejected an iteration whose first trial was the better one,
\* and has inverted ddamp
C5_Witness ==
    /\ fn = "do_levmarq"
    /\ hist.last = "bad"
    /\ err0 < err1
    /\ err0 > err_start
    /\ ddamp = DInv(DTenth)
    /\ damp = DTenth

\* the call has ended: by a return or by an exception
Ended == pc \in {"done", "RuntimeError", "ValueError"}

\* C7 as stated: the outer loops end, after at most num_iter accepted
\* iterations and at most 10*num_iter iterations in all
C7_AtMostTenPerIter ==
    /\ hist.accepts <= kw.num_iter
    /\ hist.iters <= 10 * kw.num_iter

\* C7, amended: the outer loop of do_levmarq and of do_levmarq_particles ends,
\* after at most num_iter accepted iterations and at most 10*num_iter + 1
\* iterations in all (ten additions of 0.1 to a binary64 0.0 give
\* 0.9999999999999999, which is still below 1)
C7_LoopEnds ==
    /\ [](hist.accepts <= kw.num_iter /\ hist.iters <= 10 * kw.num_iter + 1)
    /\ <>Ended

\* a call with num_iter = 1 has returned after eleven outer iterations, all of
\* them rejected
C7_Witness ==
    /\ pc = "done"
    /\ kw.num_iter = 1
    /\ hist.iters = 11
    /\ hist.accepts = 0

\* the claim's "min_redundant*P > max_mem/(8*P)", in exact arithmetic
TooLittleMemory(max_mem, min_redundant, nparams) ==
    min_redundant * nparams * 8 * nparams > max_mem

\* C8 as stated: whenever min_redundant*P <= max_mem/(8*P), get_num_px_jtj
\* returns clip(S/decimate, min_redundant*P, max_mem/(8*P)), the three taken as
\* exact quotients (both sides here are multiplied by decimate*8*P)
C8_ExactClip ==
    (fn = "get_num_px_jtj" /\ pc # "call"
       /\ ~TooLittleMemory(kw.max_mem, kw.min_redundant, kw.nparams)) =>
        /\ pc = "done"
        /\ num_px * kw.decimate * 8 * kw.nparams
             = Clip(kw.size * 8 * kw.nparams,
                    kw.min_redundant * kw.nparams * kw.decimate * 8 * kw.nparams,
                    kw.max_mem * kw.decimate)

\* C8, amended: whenever min_redundant*P <= max_mem/(8*P), get_num_px_jtj
\* returns clip(floor(S/decimate), min_redundant*P, floor(max_mem/(8*P))); the
\* count is then never below the redundancy bound min_redundant*P and never
\* above the memory bound max_mem/(8*P)
C8_FloorClip ==
    (fn = "get_num_px_jtj" /\ pc # "call"
       /\ ~TooLittleMemory(kw.max_mem, kw.min_redundant, kw.nparams)) =>
        /\ pc = "done"
        /\ num_px = Clip(kw.size \div kw.decimate, kw.min_redundant * kw.nparams,
                         kw.max_mem \div (8 * kw.nparams))
        /\ num_px >= kw.min_redundant * kw.nparams
        /\ num_px * 8 * kw.nparams <= kw.max_mem

\* get_num_px_jtj has returned the decimated pixel count, which is below the
\* exact quotient S/decimate
C8_Witness ==
    /\ fn = "get_num_px_jtj"
    /\ pc = "done"
    /\ num_px = kw.size \div kw.decimate
    /\ num_px * kw.decimate < kw.size
    /\ num_px > kw.min_redundant * kw.nparams

\* C9: when min_redundant*P > max_mem/(8*P), do_levmarq and do_conj_grad_jtj
\* raise the configuration error before any update of the model: they never
\* get past the call, and the parameter vector and the particles are those the
\* optimizer was called with
C9_ErrorBeforeUpdate ==
    (fn \in {"do_levmarq", "do_conj_grad_jtj"}
       /\ TooLittleMemory(kw.max_mem, kw.min_redundant, Cardinality(block))) =>
        /\ pc \in {"call", "RuntimeError"}
        /\ state = hist.entry
        /\ pos = hist.entry_pos
        /\ rad = hist.entry_rad

\* do_conj_grad_jtj has raised the configuration error
C9_Witness ==
    /\ fn = "do_conj_grad_jtj"
    /\ pc = "RuntimeError"
    /\ TooLittleMemory(kw.max_mem, kw.min_redundant, Cardinality(block))
    /\ state = hist.entry

\* particle p is located in the region: its faces are part of the region
InBoxClosed(ps, p, box) ==
    \A a \in Axes : ps[p][a] >= 2 * box[1][a] /\ ps[p][a] <= 2 * box[2][a]

\* the particles of the groups that separate_particles_into_groups returned
Grouped == UNION {particle_groups[m] : m \in 1 .. Len(particle_groups)}

\* C10: every particle whose centre is in the region given by bounds (by
\* default from [0,0,0] to the image shape) is in at least one of the groups
\* separate_particles_into_groups returns, for every region_size
C10_EveryParticleGrouped ==
    (fn = "separate_particles_into_groups" /\ pc = "done") =>
        \A p \in Particles : InBoxClosed(pos, p, DefaultBounds) => p \in Grouped

\* C11: separate_particles_into_groups returns non-empty, pairwise disjoint
\* groups: no particle index is in two of the returned groups, and no returned
\* group is empty
C11_GroupsDisjointNonEmpty ==
    (fn = "separate_particles_into_groups" /\ pc = "done") =>
        /\ \A m \in 1 .. Len(particle_groups) : particle_groups[m] # {}
        /\ \A m, n \in 1 .. Len(particle_groups) :
               m # n => particle_groups[m] \cap particle_groups[n] = {}

\* two groups are returned, and particle 1 lies on a face that two boxes share
C11_Witness ==
    /\ fn = "separate_particles_into_groups" /\ pc = "done"
    /\ Len(particle_groups) = 2
    /\ kw.region_size = <<1, 1, 1>>
    /\ pos[1] = <<2, 1, 1>>

\* the position and the radius that the call of update_one_particle asks for
\* particle 1: p0+pos, r0+rad of a relative update, pos, rad of an absolute one
AskedPos(a) == IF kw.relative THEN hist.entry_pos[1][a] + kw.pos[a] ELSE kw.pos[a]
AskedRad == IF kw.relative THEN hist.entry_rad[1] + kw.rad ELSE kw.rad
AskedOutside == \E a \in Axes : AskedPos(a) < 0 \/ AskedPos(a) > ImageShape[a]
UOPEnded == fn = "update_one_particle" /\ pc # "call"

\* C12: update_one_particle with fix_errors=False raises the invalid-update
\* error whenever the resulting position has a coordinate outside the image
\* bounds or the resulting radius is non-positive (<= 0), for absolute and for
\* relative updates
C12_RaisesOnNonPositiveRadius ==
    (UOPEnded /\ ~kw.fix_errors /\ (AskedOutside \/ AskedRad <= 0)) => pc = "ValueError"

\* C12, amended: with fix_errors=False the error is raised whenever the
\* resulting position has a coordinate outside the image bounds or the
\* resulting radius is negative (< 0); a resulting radius of exactly 0 with a
\* position inside the bounds is committed without an error
C12_RaisesOnNegativeRadius ==
    (UOPEnded /\ ~kw.fix_errors) =>
        /\ (AskedOutside \/ AskedRad < 0) => pc = "ValueError"
        /\ (~AskedOutside /\ AskedRad = 0) =>
               (pc = "done" /\ rad[1] = 0 /\ \A a \in Axes : pos[1][a] = AskedPos(a))

\* a relative update to a negative radius, inside the image, has raised
C12_Witness ==
    /\ UOPEnded /\ ~kw.fix_errors /\ kw.relative
    /\ ~AskedOutside /\ AskedRad < 0
    /\ pc = "ValueError"

\* the requested update of particle 1 is invalid
AskedInvalid == AskedOutside \/ AskedRad < 0

\* the committed position is within the image bounds, the radius not negative
CommittedValid ==
    /\ \A a \in Axes : pos[1][a] >= 0 /\ pos[1][a] <= ImageShape[a]
    /\ rad[1] >= 0

\* a violating coordinate, or radius, is committed 1e-6 inside the violated bound
ViolatingSetInside ==
    /\ \A a \in Axes : /\ AskedPos(a) < 0 => pos[1][a] = ClipEps
                       /\ AskedPos(a) > ImageShape[a] => pos[1][a] = ImageShape[a] - ClipEps
    /\ AskedRad < 0 => rad[1] = ClipEps

\* C13: update_one_particle with fix_errors=True never raises the
\* invalid-update error, the committed position lies within the image bounds
\* and the committed radius is not negative; when the requested update is
\* invalid, each violating coordinate is set to 1e-6 inside the violated bound
\* and the coordinates that were already valid are committed as requested
C13_ValidCoordinatesKept ==
    (UOPEnded /\ kw.fix_errors) =>
        /\ pc = "done"
        /\ CommittedValid
        /\ AskedInvalid =>
              /\ ViolatingSetInside
              /\ \A a \in Axes : (AskedPos(a) >= 0 /\ AskedPos(a) <= ImageShape[a])
                                     => pos[1][a] = AskedPos(a)
              /\ AskedRad >= 0 => rad[1] = AskedRad

\* C13, amended: with fix_errors=True the call never raises and commits a valid
\* position and radius; when the requested update is invalid, each violating
\* coordinate is set to 1e-6 inside the violated bound, a coordinate that is at
\* least 1e-6 inside both bounds is committed as requested, and a valid one
\* that is closer than 1e-6 to a bound is moved to 1e-6 inside that bound; a
\* valid update is committed as requested
C13_InnerCoordinatesKept ==
    (UOPEnded /\ kw.fix_errors) =>
        /\ pc = "done"
        /\ CommittedValid
        /\ AskedInvalid =>
              /\ ViolatingSetInside
              /\ \A a \in Axes :
                    /\ (AskedPos(a) >= ClipEps /\ AskedPos(a) <= ImageShape[a] - ClipEps)
                           => pos[1][a] = AskedPos(a)
                    /\ (AskedPos(a) >= 0 /\ AskedPos(a) < ClipEps) => pos[1][a] = ClipEps
                    /\ (AskedPos(a) <= ImageShape[a] /\ AskedPos(a) > ImageShape[a] - ClipEps)
                           => pos[1][a] = ImageShape[a] - ClipEps
              /\ AskedRad >= ClipEps => rad[1] = AskedRad
              /\ (AskedRad >= 0 /\ AskedRad < ClipEps) => rad[1] = ClipEps
        /\ ~AskedInvalid => (rad[1] = AskedRad /\ \A a \in Axes : pos[1][a] = AskedPos(a))

\* an absolute update below the image along x, on the bound along y, was fixed
C13_Witness ==
    /\ UOPEnded /\ kw.fix_errors /\ ~kw.relative
    /\ AskedPos(1) < 0 /\ AskedPos(2) = 0 /\ AskedRad = 2
    /\ pc = "done" /\ pos[1] = <<ClipEps, ClipEps, 1>> /\ rad[1] = 2

\* C14: in a rejected outer iteration of do_levmarq_particles no exception
\* propagates to the caller: the rollback update completes and the loop goes
\* on; s.reset() is called (with a warning) exactly if the error after the
\* rollback exceeds err_start by more than the tolerance 1e-3
C14_RejectedNeverRaises ==
    [][(fn = "do_levmarq_particles" /\ pc = "iter" /\ Rejected') =>
          /\ pc' = "loop"
          /\ hist'.last = (IF 1000 * ErrNow' > 1000 * err_start + ErrTolMilli
                           THEN "bad_reset" ELSE "bad")]_vars

\* do_line_min has ended with the result of the minimizer in hand
LineMinEnded == fn = "do_line_min" /\ hist.last \in {"line_min", "wtf"}

\* C15: do_line_min raises whenever the minimizer's result is no better than
\* the error at step 0 (res.fun not lower than the error measured at entry);
\* it never returns normally with a point that is no better than step 0
C15_RaisesWhenNoBetter ==
    LineMinEnded =>
        /\ hist.res_fun >= err_start => pc = "RuntimeError"
        /\ pc = "done" => ErrNow < err_start

\* C15, amended: do_line_min raises exactly when the minimizer's result is
\* worse than the error measured at entry (res.fun > start_err); when it is
\* equal or lower, do_line_min returns normally with the model at the
\* minimizer's point, whose error is res.fun
C15_RaisesWhenWorse ==
    LineMinEnded =>
        /\ pc = "RuntimeError" <=> hist.res_fun > err_start
        /\ pc = "done" <=> hist.res_fun <= err_start
        /\ pc = "done" => ErrNow = hist.res_fun

\* the minimizer has returned a point that is worse, and do_line_min has raised
C15_Witness ==
    /\ LineMinEnded
    /\ hist.res_fun > err_start
    /\ pc = "RuntimeError"

\* C16: when do_line_min raises its line-search failure, the free parameters
\* s.state[block] equal p0, the values they had when do_line_min was called
C16_FailureLeavesP0 ==
    (fn = "do_line_min" /\ hist.last = "wtf") =>
        /\ Snapshot(state, block) = p0
        /\ state = hist.entry

\* C17: update_particles is all-or-nothing with respect to the invalid-update
\* error: if the update of any particle of the group raises, no particle of
\* the group has been changed (positions and radii equal their values at the
\* call)
C17_AllOrNothing ==
    (fn = "update_particles" /\ pc = "ValueError") =>
        (pos = hist.entry_pos /\ rad = hist.entry_rad)

\* C18: do_levmarq on a model whose parameter-block names differ from the
\* expected set fails with an error (it does not return normally), and when
\* it fails the parameter vector equals the one it had at the call
C18_UnsupportedFailsUnchanged ==
    (fn = "do_levmarq" /\ ~param_ok) =>
        /\ pc # "done"
        /\ pc = "RuntimeError" => state = hist.entry

\* the tiles of the particles of inds
TilesOfInds == {TileOfParticle(pos, rad, kw.inds[k]) : k \in 1 .. Len(kw.inds)}

\* C19: for every non-empty set of particle indices,
\* get_tile_from_multiple_particle_change returns the tile whose left corner
\* is the component-wise minimum of the per-particle tile left corners and
\* whose right corner is the component-wise maximum of the per-particle tile
\* right corners, so every per-particle tile is contained in it
C19_TileIsUnion ==
    (fn = "get_tile_from_multiple_particle_change" /\ pc = "done") =>
        \A a \in Axes :
            /\ \E t \in TilesOfInds : dif_tile.l[a] = t.l[a]
            /\ \E t \in TilesOfInds : dif_tile.r[a] = t.r[a]
            /\ \A t \in TilesOfInds : dif_tile.l[a] <= t.l[a] /\ t.r[a] <= dif_tile.r[a]

\* the tile of two particles whose tiles do not contain each other: the left
\* corner is that of the second along x, that of the first along y
C19_Witness ==
    /\ fn = "get_tile_from_multiple_particle_change" /\ pc = "done"
    /\ kw.inds = <<1, 2>>
    /\ TileOfParticle(pos, rad, 2).l[1] < TileOfParticle(pos, rad, 1).l[1]
    /\ TileOfParticle(pos, rad, 1).l[2] < TileOfParticle(pos, rad, 2).l[2]
    /\ dif_tile.l[1] = TileOfParticle(pos, rad, 2).l[1]
    /\ dif_tile.l[2] = TileOfParticle(pos, rad, 1).l[2]

\* do_levmarq_all_particle_groups is in its for loop, or in the
\* do_levmarq_particles it has called
InGroupLoop == fn = "do_levmarq_all_particle_groups" /\ pc \in {"for", "done"}
InGroupCall ==
    fn = "do_levmarq_particles" /\ hist.caller = "do_levmarq_all_particle_groups"

\* the groups are taken one at a time in list order, each once, and s.reset()
\* is called once after each do_levmarq_particles that has returned and before
\* the next one starts
GroupsInOrder ==
    /\ InGroupLoop => (hist.group <= Len(particle_groups) /\ hist.resets = hist.group)
    /\ InGroupCall =>
          /\ hist.group \in 1 .. Len(particle_groups)
          /\ particles = particle_groups[hist.group]
          /\ hist.resets = hist.group - 1

GroupsStep ==
    /\ (InGroupLoop \/ InGroupCall) =>
          /\ hist'.group \in {hist.group, hist.group + 1}
          /\ hist'.resets \in {hist.resets, hist.resets + 1}
    /\ (InGroupLoop /\ hist'.group # hist.group) =>
          (fn' = "do_levmarq_particles" /\ pc' = "call")
    /\ (InGroupCall /\ hist'.resets # hist.resets) => pc = "done"

\* do_levmarq_all_particle_groups has returned, or an error has left it
GroupLoopEnded ==
    \/ (fn = "do_levmarq_all_particle_groups" /\ pc = "done")
    \/ (InGroupCall /\ pc \in {"RuntimeError", "ValueError"})

\* C20: do_levmarq_all_particle_groups runs do_levmarq_particles exactly once
\* on each group returned by the partitioner, one group at a time in list
\* order, and calls s.reset() after each group's optimization has finished and
\* before the next group's optimization starts
C20_EveryGroupRun ==
    /\ [](GroupsInOrder)
    /\ [][GroupsStep]_vars
    /\ [](GroupLoopEnded =>
             (InGroupLoop /\ hist.group = Len(particle_groups)
              /\ hist.resets = Len(particle_groups)))

\* C20, amended: do_levmarq_all_particle_groups runs do_levmarq_particles on
\* the groups one at a time in list order, each at most once, and calls
\* s.reset() after each do_levmarq_particles that has returned and before the
\* next one starts; if no call raises, every group is run exactly once; if a
\* call raises, the error leaves do_levmarq_all_particle_groups at once: no
\* s.reset() follows and the groups after it are not run
C20_GroupsRunUntilError ==
    /\ [](GroupsInOrder)
    /\ [][GroupsStep]_vars
    /\ [](GroupLoopEnded =>
             \/ (InGroupLoop /\ hist.group = Len(particle_groups)
                 /\ hist.resets = Len(particle_groups))
             \/ (InGroupCall /\ pc = "ValueError" /\ hist.resets = hist.group - 1))

\* both groups of a list of two have been run, and s.reset() was called twice
C20_Witness ==
    /\ fn = "do_levmarq_all_particle_groups" /\ pc = "done"
    /\ particle_groups = <<<<2>>, <<1>>>>
    /\ hist.group = 2 /\ hist.resets = 2

\* the region sizes the search has called calc_mem_usage with: from the size
\* given down to the size kept when it shrinks, from the size given up to one
\* above the size kept when it grows
SearchedRegions ==
    LET d == region_size[1] - kw.region_size[1]
    IN  IF CalcMemUsage(pos, kw.region_size) > kw.max_mem
        THEN {RegionAdd(kw.region_size, k) : k \in d .. 0}
        ELSE {RegionAdd(kw.region_size, k) : k \in 0 .. (d + 1)}

\* C21: with calc_region_size=True, the region size do_levmarq_all_particle_groups
\* partitions with has a memory estimate 32 * (largest group) * (padded box
\* volume) <= max_mem whenever a region size of the searched range has one
C21_RegionFitsMemory ==
    (fn = "do_levmarq_all_particle_groups" /\ pc = "partitioned" /\ kw.calc_region_size) =>
        ((\E rs \in SearchedRegions : CalcMemUsage(pos, rs) <= kw.max_mem)
            => CalcMemUsage(pos, region_size) <= kw.max_mem)

\* do_conj_grad_jtj is past its one computation of J, JTJ, the gradient and the
\* eigendecomposition
CGSweeping == fn = "do_conj_grad_jtj" /\ pc \in {"cg_dir", "done"}

\* the pass of the inner loop on direction dir_a: a line search is run exactly
\* when the eigenvalue is at least min_eigval times the largest, a skipped
\* direction updates nothing, the eigendecomposition is the one of the call,
\* and the next direction is the next lower eigenvalue of the same sweep or,
\* after the lowest, the largest of the next sweep
CGDirectionStep ==
    (fn = "do_conj_grad_jtj" /\ pc = "cg_dir") =>
        /\ evals' = evals /\ hist'.njac = hist.njac
        /\ (hist'.last \in {"line_min", "wtf", "raise"})
              <=> (evals[dir_a] * EigvalDen >= kw.min_eigval * EvalsMax(evals))
        /\ (hist'.last = "degenerate") => (state' = state /\ pos' = pos /\ rad' = rad)
        /\ IF dir_a > 1
           THEN dir_a' = dir_a - 1 /\ evals[dir_a'] <= evals[dir_a] /\ rn' = rn
           ELSE dir_a' = Cardinality(block) /\ evals[dir_a'] = EvalsMax(evals)
                /\ rn' = rn + 1
        /\ (pc' = "done") => (dir_a = 1 /\ rn' = kw.num_sweeps)
        /\ (pc' = "cg_dir") => rn' < kw.num_sweeps

C23_ConjGradNeverIncreases ==
    (/\ fn = "do_conj_grad_jtj" /\ pc = "done"
     /\ ~kw.be_nice /\ ~kw.threept /\ kw.num_sweeps = 2 /\ kw.min_eigval = 0)
        => ErrNow <= ErrEntry

\* the pixels of s.image[s.inner]
InteriorPixels ==
    {<<x, y, z>> : x \in 0 .. (kw.shape[1] - 1), y \in 0 .. (kw.shape[2] - 1),
                   z \in 0 .. (kw.shape[3] - 1)}

\* C24: when the pixel budget is smaller than the number of interior pixels,
\* get_rand_Japprox evaluates J on exactly that many pairwise-distinct interior
\* pixel coordinates (sampling without replacement); when the budget is not
\* smaller, it evaluates J on every interior pixel
C24_SamplesWithoutReplacement ==
    (fn = "get_rand_Japprox" /\ pc = "done") =>
        /\ \A i \in 1 .. Len(px_inds) : px_inds[i] \in InteriorPixels
        /\ \A i, j \in 1 .. Len(px_inds) : i # j => px_inds[i] # px_inds[j]
        /\ IF kw.num_inds < InnerSize(kw.shape)
           THEN Len(px_inds) = kw.num_inds
           ELSE {px_inds[i] : i \in 1 .. Len(px_inds)} = InteriorPixels

\* a budget of four of the six pixels: J is evaluated on four pixels, the last
\* of them drawn first
C24_Witness ==
    /\ fn = "get_rand_Japprox" /\ pc = "done"
    /\ kw.shape = <<2, 1, 3>> /\ kw.num_inds = 4
    /\ Len(px_inds) = 4
    /\ px_inds[1] = <<1, 0, 2>>

\* the updates of one parameter without the restore
StencilUpdates == IF kw.threept THEN 2 ELSE 1

\* C25: with be_nice set, after eval_deriv returns the perturbed block has the
\* value it had before the call, and after eval_one_particle_grad returns the
\* particle's position and radius have the values they had before the call,
\* for the 2-point and the 3-point stencil; the restore costs exactly one
\* additional model update per parameter
C25_RestoreIsExact ==
    /\ (fn = "eval_deriv" /\ pc = "done") =>
          /\ kw.be_nice => state = hist.entry
          /\ hist.updates = StencilUpdates + (IF kw.be_nice THEN 1 ELSE 0)
    /\ (fn = "eval_one_particle_grad" /\ pc = "done") =>
          /\ kw.be_nice => (pos = hist.entry_pos /\ rad = hist.entry_rad)
          /\ hist.updates = 4 * (StencilUpdates + (IF kw.be_nice THEN 1 ELSE 0))

C27_CutoffIsTheOption ==
    (fn \in {"do_levmarq", "do_levmarq_particles"}) =>
        \A c \in hist.rconds : c = kw.min_eigval

\* the solve has returned for a nonzero JTJ with two identical columns and
\* min_eigval = 1e-8
IdenticalColumnsSolved ==
    /\ fn = "find_LM_updates"
    /\ pc = "done"
    /\ kw.JTJ[1] = kw.JTJ[2]
    /\ kw.JTJ[1][1] > 0
    /\ kw.min_eigval_inv = 10^8

\* the step delta0 is finite
FiniteStep == delta0.den # 0

\* A0.delta0 = -grad, for the damped matrix A0 = JTJ + damp*diag(JTJ)
SolvesDamped ==
    \A i \in 1 .. 2 :
        A0(kw.JTJ, kw.damp)[i][1] * delta0.num[1]
            + A0(kw.JTJ, kw.damp)[i][2] * delta0.num[2]
        = -kw.grad[i] * delta0.den * kw.damp[2]

LMIterating == fn = "do_levmarq" /\ pc = "iter"

\* C29: in do_levmarq, J, JTJ, the sampled pixel set and the gradient are
\* recomputed at the start of an outer iteration if and only if it is the
\* first iteration of the call or the previous iteration was accepted; after a
\* rejected iteration the next iteration reuses them unchanged and issues no
\* derivative evaluation (hist.njac counts the calls of get_rand_Japprox and is
\* the version of J in use)
C29_RecomputeAfterAccept ==
    [][LMIterating =>
        /\ (hist'.njac = hist.njac + 1) <=> (hist.iters = 0 \/ hist.prev = "good")
        /\ (hist.iters > 0 /\ hist.prev = "bad") =>
              /\ hist'.njac = hist.njac
              /\ \E dd0 \in LMUpdates(p0), dd1 \in LMUpdates(p0) :
                    LET s1 == UpdateStateGlobal(UpdateStateGlobal(state, block,
                                  VecAdd(p0, dd0)), block, VecAdd(p0, dd1))
                    IN  \/ state' = LMRestore(s1, block, p0)
                        \/ state' = LMKeep(s1, block, p0, dd0,
                                           GetErr(UpdateStateGlobal(state, block,
                                               VecAdd(p0, dd0)), pos, rad),
                                           GetErr(s1, pos, rad))
                        \/ pc' = "RuntimeError"]_vars

\* do_levmarq has returned after a rejected iteration and an accepted one that
\* reused the J of the rejected one
C29_Witness ==
    /\ fn = "do_levmarq"
    /\ pc = "done"
    /\ hist.iters = 2
    /\ hist.njac = 1
    /\ hist.accepts = 1

\* an inner step of the internal run of do_levmarq is about to run
LMRunning == fn = "do_levmarq" /\ pc = "run"

\* the internal run is entered only from an accepted step with do_run set, runs
\* at most run_length inner steps, and computes no J
RunKeepsJ ==
    /\ (~LMRunning /\ LMRunning') =>
          (kw.do_run /\ pc = "iter" /\ hist'.last = "good" /\ rn' = 0)
    /\ LMRunning =>
          /\ hist'.njac = hist.njac
          /\ rn < kw.run_length /\ rn' <= kw.run_length
          /\ hist'.old_err = ErrNow
          /\ (LMRunning' <=> (hist'.last = "run_on" /\ rn' < kw.run_length))

\* C30 as stated: the internal run of do_levmarq (entered only after an accepted
\* step when do_run is set) performs at most run_length inner steps, all with
\* the same J and JTJ, and stops at the first inner step that fails to improve
\* the error, rolling exactly that step back; inner steps before it stay applied
C30_RunStopsWhenNoBetter ==
    [][/\ RunKeepsJ
       /\ LMRunning =>
             IF hist'.new_err < hist'.old_err
             THEN hist'.last = "run_on" /\ rn' = rn + 1 /\ ErrNow' = hist'.new_err
             ELSE hist'.last = "run_back" /\ rn' = rn /\ state' = state]_vars

\* C30: the internal run of do_levmarq (entered only after an accepted step when
\* do_run is set) performs at most run_length inner steps, all with the same J
\* and JTJ, and stops at the first inner step that increases the error, rolling
\* exactly that step back; inner steps before it, and a step that leaves the
\* error as it was, stay applied
C30_RunStopsWhenWorse ==
    [][/\ RunKeepsJ
       /\ LMRunning =>
             IF hist'.new_err <= hist'.old_err
             THEN hist'.last = "run_on" /\ rn' = rn + 1 /\ ErrNow' = hist'.new_err
             ELSE hist'.last = "run_back" /\ rn' = rn /\ state' = state]_vars

\* the internal run has stopped at its second inner step, which made the error
\* larger and was rolled back, the first one staying applied
C30_Witness ==
    /\ fn = "do_levmarq"
    /\ hist.last = "run_back"
    /\ rn = 1
    /\ hist.new_err > hist.old_err
    /\ ErrNow = hist.old_err
    /\ ErrNow < err_start

\* do_line_min has handed its bracket to the scalar minimizer
BracketHanded == fn = "do_line_min" /\ pc \in {"minimize", "done", "RuntimeError"}

\* the error at 0 is the minimum of the three initial evaluations
CentreIsMin ==
    /\ line.cnt_val <= line.brk_vals[1]
    /\ line.cnt_val <= line.brk_vals[2]

\* C31: in do_line_min, the three-point bracket (a, b, c) handed to the scalar
\* minimizer always satisfies a < b < c, err(b) <= err(a) and err(b) <= err(c):
\* it is [-2, 0, 2] when the error at 0 is the minimum of the three initial
\* evaluations, and otherwise the bracket extended by the last tripled step on
\* the side of the better endpoint
C31_BracketIsValid ==
    BracketHanded =>
        LET a == line.bracket[1]
            b == line.bracket[2]
            c == line.bracket[3]
        IN  /\ Len(line.bracket) = 3
            /\ a < b /\ b < c
            /\ kw.for_min[b] <= kw.for_min[a]
            /\ kw.for_min[b] <= kw.for_min[c]
            /\ IF CentreIsMin
               THEN line.bracket = <<-2, 0, 2>>
               ELSE /\ line.start \in LinePts \ {-2, 0, 2}
                    /\ line.new = kw.for_min[line.start]
                    /\ IF line.brk_vals[1] < line.brk_vals[2]
                       THEN line.bracket = <<line.start, -2, 0>>
                       ELSE line.bracket = <<0, 2, line.start>>

\* do_line_min has handed over a bracket it extended to the left by two
\* triplings, the error at -6 being lower than at -2 and the one at -18 not
C31_Witness ==
    /\ BracketHanded
    /\ line.bracket = <<-18, -2, 0>>
    /\ kw.for_min[-6] < kw.for_min[-2]
    /\ kw.for_min[-2] < kw.for_min[0]

\* do_line_min has returned or raised
LineEnded == fn = "do_line_min" /\ pc \in {"done", "RuntimeError", "OverflowError"}

\* C32: every call of do_line_min terminates: run length is bounded by
\* iteration counts, so the bracket-expansion loop (repeated tripling of the
\* step) performs a bounded number of error evaluations for every error
\* function, including one that keeps decreasing along the search direction
C32_LineMinTerminates == <>LineEnded

\* the positions in pixels (the coordinates of the groups are half pixels)
PixelPos == [p \in Particles |-> <<pos[p][1] \div 2, pos[p][2] \div 2, pos[p][3] \div 2>>]

\* the indices of a group in ascending order, as np.nonzero returns them
RECURSIVE AsInds(_)
AsInds(g) ==
    IF g = {} THEN <<>>
    ELSE LET m == CHOOSE x \in g : \A y \in g : x <= y
         IN  <<m>> \o AsInds(g \ {m})

\* get_tile_from_multiple_particle_change of the m-th group
GroupTile(m) == GetTileFromMultipleParticleChange(PixelPos, rad, AsInds(particle_groups[m]))

\* two tiles have a pixel in common
TilesOverlap(t, u) == \A a \in Axes : t.l[a] < u.r[a] /\ u.l[a] < t.r[a]

\* separate_particles_into_groups has returned
GroupsReturned == fn = "separate_particles_into_groups" /\ pc = "done"

\* C33 as stated: for any two distinct groups returned by
\* separate_particles_into_groups, the padded bounding tiles of the two groups
\* (get_tile_from_multiple_particle_change of each group) do not overlap, so
\* optimizing one group never changes pixels inside another group's tile
C33_GroupTilesDisjoint ==
    GroupsReturned =>
        \A m, n \in 1 .. Len(particle_groups) :
            m # n => ~TilesOverlap(GroupTile(m), GroupTile(n))

\* the centres of the particles of g are on one side of the plane c of axis a,
\* the face of a box, and those of h on the other
Separated(g, h, a, c) ==
    /\ \A p \in g : pos[p][a] <= 2 * c
    /\ \A q \in h : pos[q][a] > 2 * c

\* C33: for any two distinct groups returned by separate_particles_into_groups,
\* the particle centres of the two groups are separated by a face of the grid
\* of boxes (a plane at a multiple of region_size along one axis), so the groups
\* share no particle; the tiles of the two groups are not kept apart
C33_GroupCentresSeparated ==
    GroupsReturned =>
        \A m, n \in 1 .. Len(particle_groups) :
            m # n =>
                \E a \in Axes, k \in 1 .. GroupShape :
                    \/ Separated(particle_groups[m], particle_groups[n], a,
                                 k * kw.region_size[a])
                    \/ Separated(particle_groups[n], particle_groups[m], a,
                                 k * kw.region_size[a])

\* two groups have been returned whose padded tiles overlap
C33_Witness ==
    /\ GroupsReturned
    /\ Len(particle_groups) = 2
    /\ TilesOverlap(GroupTile(1), GroupTile(2))

-------------------------------------------------------------------------------
(* The damping values of do_levmarq and do_levmarq_particles in binary64.  *)
(***************************************************************************)

\* the ddamp a caller gives: the defaults 0.1 and 0.2, and 0.9
DampFactors == {D64Tenth, D64Fifth, D64NineTenths}

\* do_levmarq(s, block, damp=0.1, ddamp, num_iter=1) and
\* do_levmarq_particles(s, particles, damp=0.1, ddamp, num_iter=1)
InitDamp ==
    /\ fn \in {"do_levmarq", "do_levmarq_particles"}
    /\ pc = "call"
    /\ kw \in [num_iter : {1}, do_run : BOOLEAN, run_length : {1},
               be_nice : {TRUE}, threept : {FALSE},
               max_mem : {64}, min_redundant : {2}, decimate : {2},
               damp : {D64Tenth}, ddamp : DampFactors]
    /\ param_ok = TRUE
    /\ state \in {st \in [Params -> Vals] : st[2] = 1}
    /\ pos = Pos0
    /\ rad = Rad0
    /\ block = IF fn = "do_levmarq" THEN {1} ELSE {}
    /\ particles = IF fn = "do_levmarq" THEN <<>> ELSE <<1>>
    /\ damp = kw.damp
    /\ ddamp = kw.ddamp
    /\ Locals0
    /\ hist = Hist0(state, pos, rad)

SpecDamp == InitDamp /\ [][NextLM \/ NextLMP]_vars

\* the powers a call of one budget unit can reach
MaxPow == 24

\* <<x * m, x * m * m, ...>>, n binary64 multiplications one after the other
RECURSIVE DPowSeq(_, _, _)
DPowSeq(x, m, n) ==
    LET y == DMul64(x, m)
    IN  IF n = 0 \/ y = DUnderflow THEN <<>> ELSE <<y>> \o DPowSeq(y, m, n - 1)

\* damp0 * d^k for k >= 0 and damp0 * (1.0/d)^(-k) for k < 0
DPow(damp0, d) ==
    LET up == DPowSeq(damp0, d, MaxPow)
        down == DPowSeq(damp0, DInv64(d), MaxPow)
    IN  {damp0} \cup {up[k] : k \in DOMAIN up} \cup {down[k] : k \in DOMAIN down}

\* 1.0/d and 1.0/(1.0/d) of each ddamp
DInvTable == [d \in DampFactors |-> <<DInv64(d), DInv64(DInv64(d))>>]

\* the powers of each ddamp, from damp = 0.1
DPowTable == [d \in DampFactors |-> DPow(D64Tenth, d)]

DampRunning == fn \in {"do_levmarq", "do_levmarq_particles"} /\ pc \in {"loop", "done"}

\* C34 as stated: damp and ddamp stay positive, ddamp is its initial value or
\* the reciprocal of its initial value, and damp is the initial damp times an
\* integer power of the initial ddamp.
C34_DampIsAPower ==
    DampRunning =>
        /\ DPositive(damp) /\ DPositive(ddamp)
        /\ ddamp \in {kw.ddamp, DInvTable[kw.ddamp][1]}
        /\ damp \in DPowTable[kw.ddamp]

\* the only assignments: ddamp = 1.0/ddamp, damp *= ddamp, damp *= (ddamp*ddamp)
DampAssigned ==
    /\ ddamp' = ddamp \/ ddamp' = DInv64(ddamp)
    /\ \/ damp' = damp
       \/ damp' = DMul64(damp, ddamp)
       \/ damp' = DMul64(damp, DMul64(ddamp, ddamp))
    /\ ddamp' # ddamp => damp' = damp

\* ddamp is d, 1.0/d or 1.0/(1.0/d); for the defaults 0.1 and 0.2 the last is d
DampFactorInverted ==
    /\ ddamp \in {kw.ddamp, DInvTable[kw.ddamp][1], DInvTable[kw.ddamp][2]}
    /\ kw.ddamp \in {D64Tenth, D64Fifth} => ddamp \in {kw.ddamp, DInvTable[kw.ddamp][1]}

\* C34: in a call started with damp = 0.1 and ddamp one of 0.1, 0.2, 0.9 and
\* one unit of budget, damp and ddamp stay positive, ddamp is d, 1.0/d or
\* 1.0/(1.0/d) in binary64, and damp changes only by a binary64 multiplication
\* by ddamp or by ddamp*ddamp.
C34_DampIsRoundedProduct ==
    /\ [](DampRunning => DPositive(damp) /\ DPositive(ddamp) /\ DampFactorInverted)
    /\ [][DampRunning /\ DampRunning' => DampAssigned]_vars

\* ddamp was inverted twice and is not the value the call was given
C34_Witness ==
    /\ DampRunning
    /\ ddamp = DInvTable[kw.ddamp][2]
    /\ ddamp # kw.ddamp
    /\ damp # kw.damp

-------------------------------------------------------------------------------
(* The point a reused J is used at.                                         *)
(***************************************************************************)

\* the trial steps of this iteration are solved from the J, JTJ and grad of an
\* earlier iteration
LMReusesJ == fn = "do_levmarq" /\ pc = "iter" /\ ~recalc_J

\* C35: whenever do_levmarq solves d0 and d1 from a reused J, JTJ and gradient,
\* the snapshot p0 is the snapshot of the iteration that computed that J, and
\* the whole parameter vector is the one J was evaluated at.
C35_StaleJAtItsPoint ==
    LMReusesJ =>
        /\ hist.njac > 0
        /\ p0 = Snapshot(hist.jac_at, block)
        /\ state = hist.jac_at

\* the call has returned after an iteration that reused the J of the one before
C35_Witness ==
    /\ fn = "do_levmarq"
    /\ pc = "done"
    /\ hist.iters > hist.njac
    /\ hist.njac > 0
    /\ hist.accepts > 0

-------------------------------------------------------------------------------
(* The parameters outside block.                                            *)
(***************************************************************************)

\* do_levmarq(s, block, num_iter=1) and do_line_min(s, block, vec), block one
\* of the two global parameters
InitFrame ==
    /\ \/ /\ fn = "do_levmarq"
          /\ kw \in [num_iter : {1}, do_run : BOOLEAN, run_length : {1},
                     be_nice : BOOLEAN, threept : BOOLEAN,
                     max_mem : {64}, min_redundant : {2}, decimate : {2}]
       \/ /\ fn = "do_line_min"
          /\ kw \in [vec : LineVecs]
    /\ pc = "call"
    /\ param_ok \in BOOLEAN
    /\ state \in [Params -> 1 .. MaxVal - 1]
    /\ pos = Pos0
    /\ rad = Rad0
    /\ block \in {{i} : i \in Params}
    /\ particles = <<>>
    /\ damp = DTenth
    /\ ddamp = DTenth
    /\ Locals0
    /\ hist = Hist0(state, pos, rad)

SpecFrame == InitFrame /\ [][NextLM \/ LineMin_Call]_vars

\* update_state_global(s, block, data) on the current model: s.state[block] is
\* data afterwards, and the other parameters are as before
UpdateSetsBlockOnly ==
    \A data \in [block -> Vals] :
        LET s2 == UpdateStateGlobal(state, block, data)
        IN  /\ Snapshot(s2, block) = data
            /\ \A i \in Params \ block : s2[i] = state[i]

\* C36: update_state_global(s, block, data) sets s.state[block] to data and
\* leaves the parameters outside block as they were, and when do_levmarq or
\* do_line_min has returned normally every parameter outside block has the
\* value it had at the call.
C36_OutsideBlockKept ==
    /\ UpdateSetsBlockOnly
    /\ fn \in {"do_levmarq", "do_line_min"} /\ pc = "done" =>
            \A i \in Params \ block : state[i] = hist.entry[i]

\* do_levmarq, its derivatives taken with be_nice=False, has returned with a
\* changed free parameter
C36_Witness ==
    /\ fn = "do_levmarq"
    /\ pc = "done"
    /\ ~kw.be_nice
    /\ hist.njac > 0
    /\ block # Params
    /\ Snapshot(state, block) # Snapshot(hist.entry, block)

====
